---- MODULE Spec2Model ----
(***************************************************************************)
(* Model of the voucher/document matching cascade of src/newmatcher2.py:   *)
(* GrokMatcher.startup (load, Pass A, Pass B, Pass C, each followed by its *)
(* merge, then the save) and the pure functions pass_a_exact_amount,       *)
(* pass_b_alias_date and pass_c_subscription.                              *)
(*                                                                         *)
(* Representation of the Python values:                                    *)
(*   - VoucherNumber: the string is modelled by int(VoucherNumber), the    *)
(*     key startup sorts by;                                               *)
(*   - doc['file']: the file name is modelled by its rank in the           *)
(*     lexicographic order of file names, the order sorted() uses;         *)
(*   - amounts: floats are modelled in thousandths (5004 is 5.004), so     *)
(*     that round(x, 2) has something to round;                            *)
(*   - ISO date strings: a value >= 0 is the day ordinal of a string that  *)
(*     datetime.fromisoformat accepts, BadIso is a string it rejects,      *)
(*     None is an absent or empty value;                                   *)
(*   - vendor lines, prefixes and postfixes: sequences of characters;      *)
(*   - dict: a function on the set of its keys.                            *)
(***************************************************************************)
EXTENDS Integers, Sequences, FiniteSets, TLC

VARIABLES
    bank_records,        \* self.bank_records: the vouchers, in file order
    doc_records,         \* self.doc_records: the documents, in file order
    creditors,           \* self.creditors: creditor id -> creditor
    matchinfo_file,      \* the persisted {"matches": ...} of matchinfo_file
    matches,             \* self.matchinfo['matches']
    unmatched_vouchers,  \* self.unmatched_vouchers (a list)
    unmatched_docs,      \* self.unmatched_docs (a list)
    new_a,               \* startup's local new_a
    new_b,               \* startup's local new_b
    new_c,               \* startup's local new_c
    cands_a,             \* Pass A's local `candidates`, per voucher number
    cands_b,             \* Pass B's local `candidates`, per voucher number
    cands_c,             \* Pass C's local `candidates`, per voucher number
    before,              \* matches and the two pools as the last pass found them
    pc,                  \* position of the process inside startup
    run,                 \* number of the current run of the program
    current_index,       \* self.current_index: the voucher under review
    switch_all_docs,     \* self.switch_all_docs.value
    switch_hide_matched, \* self.switch_hide_matched.value
    table_data,          \* self.table.data: the rows refresh_table built
    arg,                 \* the arguments of a call of a module-level function
    ret,                 \* what that call returned
    locals               \* the local variables of a call that is under way

vars == <<bank_records, doc_records, creditors, matchinfo_file, matches,
          unmatched_vouchers, unmatched_docs, new_a, new_b, new_c,
          cands_a, cands_b, cands_c, before, pc, run,
          current_index, switch_all_docs, switch_hide_matched, table_data,
          arg, ret, locals>>

\* the state of the review window
widgets == <<current_index, switch_all_docs, switch_hide_matched, table_data>>

\* a call of a function outside the application object
call == <<arg, ret, locals>>

-----------------------------------------------------------------------------
(* Bounds of the model *)

NumVouchers == 2      \* vouchers in the bank file
NumDocs == 2          \* documents in the docdata file
MaxRuns == 2          \* runs of the program on the same inputs
MaxDates == 2         \* dates of a document in a call of the date functions

-----------------------------------------------------------------------------
(* Python built-ins *)

None == -2            \* an absent / empty (falsy) value
BadIso == -1          \* a non-empty string datetime.fromisoformat rejects

\* the locals of Pass C's schedule loop before they are bound
NoLocals == [delta |-> None, current |-> None, expected_dates |-> <<>>]

Range(s) == {s[i] : i \in DOMAIN s}

In(x, s) == \E i \in DOMAIN s : s[i] = x

Abs(x) == IF x < 0 THEN -x ELSE x

EmptyDict == [k \in {} |-> <<>>]

\* round(float(x), 2) on an amount in thousandths; the result is in
\* thousandths too.  On a tie (last digit 5) Python decides by the binary
\* value of the float; the model takes the even cent, and no amount of
\* VoucherProfiles or DocProfiles is a tie.
round2(x) ==
    LET q == x \div 10
        r == x % 10
    IN  IF r < 5 THEN q * 10
        ELSE IF r > 5 THEN (q + 1) * 10
        ELSE IF q % 2 = 0 THEN q * 10 ELSE (q + 1) * 10

\* line.startswith(pref)
startswith(line, pref) ==
    /\ Len(pref) <= Len(line)
    /\ SubSeq(line, 1, Len(pref)) = pref

\* line.endswith(post)
endswith(line, post) ==
    /\ Len(post) <= Len(line)
    /\ SubSeq(line, Len(line) - Len(post) + 1, Len(line)) = post

\* list.remove(x) guarded by `if x in list`: drops the first occurrence
RECURSIVE remove(_, _)
remove(s, x) ==
    IF s = <<>> THEN <<>>
    ELSE IF Head(s) = x THEN Tail(s)
    ELSE <<Head(s)>> \o remove(Tail(s), x)

\* sorted(S) of a set of integers, ascending
RECURSIVE sorted(_)
sorted(S) ==
    IF S = {} THEN <<>>
    ELSE LET m == CHOOSE x \in S : \A y \in S : x <= y
         IN  <<m>> \o sorted(S \ {m})

\* the parsable dates of a document, in list order
\* (try: doc_dates.append(datetime.fromisoformat(d)) except: pass)
doc_dates_of(doc) == SelectSeq(doc.dates, LAMBDA d : d >= 0)

\* min(doc_dates, key=lambda dd: abs((dd - v_date).days)): the first element
\* of the list at minimal distance
closest_date(doc_dates, v_date) ==
    LET i == CHOOSE i \in DOMAIN doc_dates :
                 /\ \A j \in DOMAIN doc_dates :
                        Abs(doc_dates[i] - v_date) <= Abs(doc_dates[j] - v_date)
                 /\ \A j \in DOMAIN doc_dates :
                        Abs(doc_dates[j] - v_date) = Abs(doc_dates[i] - v_date) => i <= j
    IN  doc_dates[i]

\* the vendor-line test shared by Pass B, Pass C and the scorer
line_matches(line, pref, post) ==
    startswith(line, pref) /\ (post = <<>> \/ endswith(line, post))

\* the documents that hold a voucher's rounded amount
doc_has_amount(doc, amt_key) ==
    \E i \in DOMAIN doc.amounts : round2(doc.amounts[i]) = amt_key

-----------------------------------------------------------------------------
(* Pass A: exact amount *)

\* doc_by_amount[key] of pass_a_exact_amount: one entry per listed amount
\* that rounds to key, over all of doc_records
RECURSIVE doc_by_amount(_, _)
doc_by_amount(docs, key) ==
    IF docs = <<>> THEN <<>>
    ELSE LET doc == Head(docs)
             hits == SelectSeq(doc.amounts, LAMBDA a : round2(a) = key)
         IN  [i \in 1..Len(hits) |-> doc.file] \o doc_by_amount(Tail(docs), key)

\* candidates = doc_by_amount.get(amt_key, [])
pass_a_candidates(voucher, docs) ==
    doc_by_amount(docs, round2(voucher.Amount))

\* pass_a_commits that takes any non-empty candidate list as a match
pass_a_commits_any(candidates) == Len(candidates) >= 1

\* if len(candidates) == 1
pass_a_commits(candidates) == Len(candidates) = 1

\* pass_dict without the test on the number of candidates: the dict holds the
\* list computed for every record that has one, as the docstring of Pass A
\* describes its result
pass_dict_every_list(records, committed, value) ==
    LET keys == {records[i].VoucherNumber : i \in DOMAIN value}
        last(vn) == CHOOSE i \in DOMAIN value :
                        /\ records[i].VoucherNumber = vn
                        /\ \A j \in DOMAIN value :
                               records[j].VoucherNumber = vn => j <= i
    IN  [vn \in keys |-> value[last(vn)]]

\* The dict a pass returns: committed is the set of indices of bank_records
\* whose final test succeeds, value[i] the list stored for record i.  A later
\* record with the same voucher number overwrites the entry of an earlier one.
pass_dict(records, committed, value) ==
    LET keys == {records[i].VoucherNumber : i \in committed}
        last(vn) == CHOOSE i \in committed :
                        /\ records[i].VoucherNumber = vn
                        /\ \A j \in committed :
                               records[j].VoucherNumber = vn => j <= i
    IN  [vn \in keys |-> value[last(vn)]]

pass_a_exact_amount(records, docs, u_vouchers, u_docs) ==
    LET cand == [i \in DOMAIN records |-> pass_a_candidates(records[i], docs)]
        committed == {i \in DOMAIN records :
                         /\ In(records[i].VoucherNumber, u_vouchers)
                         /\ pass_a_commits(cand[i])}
    IN  pass_dict(records, committed, cand)

-----------------------------------------------------------------------------
(* Pass B: alias + date window *)

\* the vendor_lines / alias_list double loop of pass_b_alias_date
matched_alias(doc, aliases) ==
    \E l \in DOMAIN doc.vendors : \E k \in DOMAIN aliases :
        line_matches(doc.vendors[l], aliases[k].prefix, aliases[k].postfix)

\* pass_b_date_ok with the 7-day window of Pass C instead of 15 days
pass_b_date_ok_week(doc, v_date) ==
    LET doc_dates == doc_dates_of(doc)
    IN  IF doc_dates # <<>>
        THEN Abs(closest_date(doc_dates, v_date) - v_date) <= 7
        ELSE TRUE

\* pass_b_date_ok with the 30-day window of the scorer's smallest date bonus
pass_b_date_ok_month(doc, v_date) ==
    LET doc_dates == doc_dates_of(doc)
    IN  IF doc_dates # <<>>
        THEN Abs(closest_date(doc_dates, v_date) - v_date) <= 30
        ELSE TRUE

\* the date test of Pass B: no parsable date, or the closest within 15 days
pass_b_date_ok(doc, v_date) ==
    LET doc_dates == doc_dates_of(doc)
    IN  IF doc_dates # <<>>
        THEN Abs(closest_date(doc_dates, v_date) - v_date) <= 15
        ELSE TRUE

\* pass_b_sees without the `not in unmatched_docs` test: Pass B would walk
\* all of doc_records, as Pass A's index does
pass_b_sees_all_docs(doc, u_docs) == TRUE

\* does Pass B look at this document for this voucher at all
pass_b_sees(doc, u_docs) == In(doc.file, u_docs)

\* the voucher reaches the document loop of Pass B
pass_b_considers(v, u_vouchers, creds) ==
    /\ In(v.VoucherNumber, u_vouchers)
    /\ v.CreditorID \in DOMAIN creds
    /\ v.Date_iso >= 0

pass_b_candidates(v, docs, u_docs, creds) ==
    LET aliases == creds[v.CreditorID].aliases
        sel == SelectSeq(docs, LAMBDA doc :
                   /\ pass_b_sees(doc, u_docs)
                   /\ matched_alias(doc, aliases)
                   /\ pass_b_date_ok(doc, v.Date_iso))
    IN  [i \in DOMAIN sel |-> sel[i].file]

pass_b_alias_date(records, docs, u_vouchers, u_docs, creds) ==
    LET considered == {i \in DOMAIN records :
                           pass_b_considers(records[i], u_vouchers, creds)}
        cand == [i \in considered |->
                    pass_b_candidates(records[i], docs, u_docs, creds)]
        committed == {i \in considered : Len(cand[i]) = 1}
    IN  pass_dict(records, committed, cand)

-----------------------------------------------------------------------------
(* Pass C: subscription frequency *)

frequency_deltas ==
    [f \in {"monthly", "quarterly", "semi-annual", "bimonthly"} |->
        CASE f = "monthly" -> 30
          [] f = "quarterly" -> 90
          [] f = "semi-annual" -> 180
          [] f = "bimonthly" -> 60]

\* delta = frequency_deltas.get(freq, timedelta(days=30))
delta_of(freq) ==
    IF freq \in DOMAIN frequency_deltas THEN frequency_deltas[freq] ELSE 30

\* expected_dates whose loop stops at the voucher date instead of one period
\* after it
RECURSIVE expected_dates_to_voucher_date(_, _, _, _)
expected_dates_to_voucher_date(current, start_date, v_date, delta) ==
    IF current <= v_date
    THEN (IF current >= start_date THEN <<current>> ELSE <<>>)
         \o expected_dates_to_voucher_date(current + delta, start_date, v_date, delta)
    ELSE <<>>

\* the while loop that builds expected_dates
RECURSIVE expected_dates(_, _, _, _)
expected_dates(current, start_date, v_date, delta) ==
    IF current <= v_date + delta
    THEN (IF current >= start_date THEN <<current>> ELSE <<>>)
         \o expected_dates(current + delta, start_date, v_date, delta)
    ELSE <<>>

\* if freq and start: subscription_aliases.append(a)
subscription_aliases(cred) ==
    SelectSeq(cred.aliases, LAMBDA a : a.frequency # "" /\ a.start_date # None)

\* pass_c_alias_hit that passes over an alias whose frequency is not a key
\* of frequency_deltas
pass_c_alias_hit_known_frequency(a, doc, v_date) ==
    IF a.start_date < 0 \/ a.frequency \notin DOMAIN frequency_deltas THEN FALSE
    ELSE LET delta == delta_of(a.frequency)
             exp == expected_dates(a.start_date, a.start_date, v_date, delta)
             doc_dates == doc_dates_of(doc)
         IN  IF doc_dates # <<>>
             THEN \E e \in DOMAIN exp :
                      Abs(closest_date(doc_dates, v_date) - exp[e]) <= 7
             ELSE TRUE

\* what one subscription alias appends to candidates for one document that
\* passed the amount and alias filters: 1 entry or none
pass_c_alias_hit(a, doc, v_date) ==
    IF a.start_date < 0 THEN FALSE          \* except ValueError: continue
    ELSE LET delta == delta_of(a.frequency)
             exp == expected_dates(a.start_date, a.start_date, v_date, delta)
             doc_dates == doc_dates_of(doc)
         IN  IF doc_dates # <<>>
             THEN \E e \in DOMAIN exp :
                      Abs(closest_date(doc_dates, v_date) - exp[e]) <= 7
             ELSE TRUE

\* the voucher reaches the document loop of Pass C
pass_c_considers(v, u_vouchers, creds) ==
    /\ In(v.VoucherNumber, u_vouchers)
    /\ v.CreditorID \in DOMAIN creds
    /\ subscription_aliases(creds[v.CreditorID]) # <<>>
    /\ v.Date_iso >= 0

\* the filters of Pass C that precede the schedule
pass_c_filters(v, doc, u_docs, subs) ==
    /\ In(doc.file, u_docs)
    /\ doc_has_amount(doc, round2(v.Amount))
    /\ matched_alias(doc, subs)

\* candidates of Pass C: one entry per (document, subscription alias) hit
RECURSIVE pass_c_append(_, _, _, _, _)
pass_c_append(v, docs, u_docs, subs, k) ==
    \* k enumerates the pairs (document, alias) in loop order
    IF docs = <<>> THEN <<>>
    ELSE IF k > Len(subs)
         THEN pass_c_append(v, Tail(docs), u_docs, subs, 1)
         ELSE (IF /\ pass_c_filters(v, Head(docs), u_docs, subs)
                  /\ pass_c_alias_hit(subs[k], Head(docs), v.Date_iso)
               THEN <<Head(docs).file>> ELSE <<>>)
              \o pass_c_append(v, docs, u_docs, subs, k + 1)

pass_c_candidates(v, docs, u_docs, creds) ==
    pass_c_append(v, docs, u_docs, subscription_aliases(creds[v.CreditorID]), 1)

\* unique_candidates without the set(): a document that qualified through two
\* aliases is counted twice
unique_candidates_keeps_duplicates(candidates) == candidates

\* unique_candidates = sorted(set(candidates))
unique_candidates(candidates) == sorted(Range(candidates))

pass_c_subscription(records, docs, u_vouchers, u_docs, creds) ==
    LET considered == {i \in DOMAIN records :
                           pass_c_considers(records[i], u_vouchers, creds)}
        uniq == [i \in considered |->
                    unique_candidates(
                        pass_c_candidates(records[i], docs, u_docs, creds))]
        committed == {i \in considered : Len(uniq[i]) = 1}
        value == [i \in committed |-> <<uniq[i][1]>>]
    IN  pass_dict(records, committed, value)

-----------------------------------------------------------------------------
(* GrokMatcher.startup: load, then each pass followed by its merge *)

\* all_vouchers - matched_vouchers, sorted by int(x)
load_unmatched_vouchers(records, m) ==
    sorted({records[i].VoucherNumber : i \in DOMAIN records} \ DOMAIN m)

\* matched_docs: every file named in some match list
matched_docs_of(m) == UNION {Range(m[vn]) : vn \in DOMAIN m}

\* sorted(all_docs - matched_docs)
load_unmatched_docs(docs, m) ==
    sorted({docs[i].file : i \in DOMAIN docs} \ matched_docs_of(m))

\* remove_docs that forgets the removal: the pool keeps the committed documents
remove_docs_forgotten(u_docs, doc_list) == u_docs

\* for dd in doc_list: if dd in self.unmatched_docs: self.unmatched_docs.remove(dd)
RECURSIVE remove_docs(_, _)
remove_docs(u_docs, doc_list) ==
    IF doc_list = <<>> THEN u_docs
    ELSE remove_docs(remove(u_docs, Head(doc_list)), Tail(doc_list))

\* commit_entry that assigns a fresh dict, {vn: doc_list}, instead of adding
\* a key to the existing one
commit_entry_fresh_dict(m, vn, doc_list) == [k \in {vn} |-> doc_list]

\* self.matchinfo['matches'][vn] = doc_list.copy()
commit_entry(m, vn, doc_list) ==
    [k \in DOMAIN m \cup {vn} |-> IF k = vn THEN doc_list ELSE m[k]]

\* merge_one that recomputes the document pool from the whole collection
\* minus the documents just committed, instead of narrowing the pool it has
merge_one_rebuilds_pool(st, vn, doc_list) ==
    IF vn \notin DOMAIN st.matches
    THEN [matches |-> commit_entry(st.matches, vn, doc_list),
          unmatched_vouchers |-> remove(st.unmatched_vouchers, vn),
          unmatched_docs |-> sorted({doc_records[i].file : i \in DOMAIN doc_records}
                                    \ Range(doc_list))]
    ELSE st

\* merge_one that commits a proposal only while all of its documents are
\* still in the pool: of two vouchers a pass proposes the same document for,
\* the one merged first takes it
merge_one_first_taker(st, vn, doc_list) ==
    IF vn \notin DOMAIN st.matches /\ \A i \in DOMAIN doc_list : In(doc_list[i], st.unmatched_docs)
    THEN [matches |-> commit_entry(st.matches, vn, doc_list),
          unmatched_vouchers |-> remove(st.unmatched_vouchers, vn),
          unmatched_docs |-> remove_docs(st.unmatched_docs, doc_list)]
    ELSE st

\* the body of one iteration of `for vn, doc_list in new_x.items()`
merge_one(st, vn, doc_list) ==
    IF vn \notin DOMAIN st.matches
    THEN [matches |-> commit_entry(st.matches, vn, doc_list),
          unmatched_vouchers |-> remove(st.unmatched_vouchers, vn),
          unmatched_docs |-> remove_docs(st.unmatched_docs, doc_list)]
    ELSE st

\* the merge loop; a dict iterates in insertion order, which is the order of
\* the first record of each voucher number in bank_records
RECURSIVE merge(_, _, _)
merge(st, new, records) ==
    IF records = <<>> THEN st
    ELSE LET vn == Head(records).VoucherNumber
         IN  merge(IF vn \in DOMAIN new THEN merge_one(st, vn, new[vn]) ELSE st,
                   new, Tail(records))

state == [matches |-> matches,
          unmatched_vouchers |-> unmatched_vouchers,
          unmatched_docs |-> unmatched_docs]

\* `candidates` of every voucher a pass evaluates, keyed by voucher number:
\* considered is the set of indices of bank_records that reach the candidate
\* computation, cand[i] the candidates of record i
cands_of(records, considered, cand) ==
    [vn \in {records[i].VoucherNumber : i \in considered} |->
        cand[CHOOSE i \in considered : records[i].VoucherNumber = vn]]

-----------------------------------------------------------------------------
(* Inputs *)

N == <<"N">>
NA == <<"N", "A">>
NB == <<"N", "B">>
SX == <<"S", "X">>
S == <<"S">>
X == <<"X">>

alias(pref, post, freq, start) ==
    [prefix |-> pref, postfix |-> post, frequency |-> freq, start_date |-> start]

\* the creditor catalog: 1 has a broad alias, 2 a narrower one, 3 a monthly
\* subscription that started on day 5; a voucher of creditor 9 names no
\* creditor of the catalog
Catalog ==
    [c \in {1, 2, 3} |->
        [aliases |->
            CASE c = 1 -> <<alias(N, <<>>, "", None)>>
              [] c = 2 -> <<alias(NB, <<>>, "", None)>>
              [] c = 3 -> <<alias(S, X, "monthly", 5)>>]]

voucher(amount, date, cred) ==
    [Amount |-> amount, Date_iso |-> date, CreditorID |-> cred]

\* the vouchers a bank file may hold (amount, day, creditor): the same amount
\* with a known and with an unknown creditor, an amount that needs rounding
\* on a later day, and a voucher of the subscription creditor
VoucherProfiles ==
    { voucher(5000, 100, 1),
      voucher(7004, 130, 2),
      voucher(7000, 100, 3),
      voucher(5000, 100, 9) }

doc(amounts, dates, vendors) ==
    [amounts |-> amounts, dates |-> dates, vendors |-> vendors]

\* the documents a docdata file may hold: with or without amounts, dates and
\* vendor lines, an amount listed twice (once rounded), a date string that
\* does not parse, an amount shared with another document
DocProfiles ==
    { doc(<<5000>>, <<>>, <<>>),
      doc(<<5000, 5001>>, <<103>>, <<NA>>),
      doc(<<>>, <<BadIso, 98>>, <<NA>>),
      doc(<<>>, <<>>, <<NB>>),
      doc(<<7000, 7000>>, <<125>>, <<NB, SX>>),
      doc(<<5000, 7000>>, <<125>>, <<NB, SX>>) }

VoucherNumbers == 1..NumVouchers
Files == 1..NumDocs

BankFiles ==
    { [i \in VoucherNumbers |->
          [VoucherNumber |-> i, Date_iso |-> f[i].Date_iso,
           Amount |-> f[i].Amount, CreditorID |-> f[i].CreditorID]] :
      f \in [VoucherNumbers -> VoucherProfiles] }

DocFiles ==
    { [i \in Files |->
          [file |-> i, dates |-> f[i].dates, amounts |-> f[i].amounts,
           vendors |-> f[i].vendors]] :
      f \in [Files -> DocProfiles] }

\* the MatchSet persisted before the first run: none, or what one
\* match_record left behind (one voucher with the document chosen for it)
PriorMatchSets ==
    {EmptyDict} \cup
    { [k \in {vn} |-> <<d>>] : vn \in VoucherNumbers, d \in Files }

-----------------------------------------------------------------------------
(* The state machine *)

\* GrokMatcher.__init__ of the first run
Init ==
    /\ bank_records \in BankFiles
    /\ doc_records \in DocFiles
    /\ creditors = Catalog
    /\ matchinfo_file \in PriorMatchSets
    /\ matches = matchinfo_file
    /\ unmatched_vouchers = <<>>
    /\ unmatched_docs = <<>>
    /\ new_a = EmptyDict
    /\ new_b = EmptyDict
    /\ new_c = EmptyDict
    /\ cands_a = EmptyDict
    /\ cands_b = EmptyDict
    /\ cands_c = EmptyDict
    /\ before = [matches |-> matches, unmatched_vouchers |-> <<>>,
                 unmatched_docs |-> <<>>]
    /\ pc = "startup"
    /\ run = 1
    /\ current_index = 0
    /\ switch_all_docs = FALSE
    /\ switch_hide_matched = TRUE
    /\ table_data = <<>>
    /\ arg = None
    /\ ret = None
    /\ locals = NoLocals

inputs == <<bank_records, doc_records, creditors>>

\* startup, up to the two log lines: the pools are derived from the MatchSet
Load ==
    /\ pc = "startup"
    /\ unmatched_vouchers' = load_unmatched_vouchers(bank_records, matches)
    /\ unmatched_docs' = load_unmatched_docs(doc_records, matches)
    /\ before' = [matches |-> matches,
                  unmatched_vouchers |-> unmatched_vouchers',
                  unmatched_docs |-> unmatched_docs']
    /\ pc' = "pass_a"
    /\ UNCHANGED <<inputs, matchinfo_file, matches, new_a, new_b, new_c,
                   cands_a, cands_b, cands_c, run>>
    /\ UNCHANGED <<widgets, call>>

\* new_a = pass_a_exact_amount(...) and its merge loop
RunPassA ==
    /\ pc = "pass_a"
    /\ LET new == pass_a_exact_amount(bank_records, doc_records,
                                      unmatched_vouchers, unmatched_docs)
           st == merge(state, new, bank_records)
       IN  /\ new_a' = new
           /\ cands_a' =
                  LET considered == {i \in DOMAIN bank_records :
                          In(bank_records[i].VoucherNumber, unmatched_vouchers)}
                  IN  cands_of(bank_records, considered,
                          [i \in considered |->
                              pass_a_candidates(bank_records[i], doc_records)])
           /\ matches' = st.matches
           /\ unmatched_vouchers' = st.unmatched_vouchers
           /\ unmatched_docs' = st.unmatched_docs
    /\ before' = state
    /\ pc' = "pass_b"
    /\ UNCHANGED <<inputs, matchinfo_file, new_b, new_c, cands_b, cands_c, run>>
    /\ UNCHANGED <<widgets, call>>

\* new_b = pass_b_alias_date(...) and its merge loop
RunPassB ==
    /\ pc = "pass_b"
    /\ LET new == pass_b_alias_date(bank_records, doc_records,
                                    unmatched_vouchers, unmatched_docs, creditors)
           st == merge(state, new, bank_records)
       IN  /\ new_b' = new
           /\ cands_b' =
                  LET considered == {i \in DOMAIN bank_records :
                          pass_b_considers(bank_records[i], unmatched_vouchers, creditors)}
                  IN  cands_of(bank_records, considered,
                          [i \in considered |->
                              pass_b_candidates(bank_records[i], doc_records,
                                                unmatched_docs, creditors)])
           /\ matches' = st.matches
           /\ unmatched_vouchers' = st.unmatched_vouchers
           /\ unmatched_docs' = st.unmatched_docs
    /\ before' = state
    /\ pc' = "pass_c"
    /\ UNCHANGED <<inputs, matchinfo_file, new_a, new_c, cands_a, cands_c, run>>
    /\ UNCHANGED <<widgets, call>>

\* RunPassC after which startup goes back to Pass A instead of on to the save
RunPassCStartsOver ==
    /\ pc = "pass_c"
    /\ LET new == pass_c_subscription(bank_records, doc_records,
                                      unmatched_vouchers, unmatched_docs, creditors)
           st == merge(state, new, bank_records)
       IN  /\ new_c' = new
           /\ cands_c' =
                  LET considered == {i \in DOMAIN bank_records :
                          pass_c_considers(bank_records[i], unmatched_vouchers, creditors)}
                  IN  cands_of(bank_records, considered,
                          [i \in considered |->
                              pass_c_candidates(bank_records[i], doc_records,
                                                unmatched_docs, creditors)])
           /\ matches' = st.matches
           /\ unmatched_vouchers' = st.unmatched_vouchers
           /\ unmatched_docs' = st.unmatched_docs
    /\ before' = state
    /\ pc' = "pass_a"
    /\ UNCHANGED <<inputs, matchinfo_file, new_a, new_b, cands_a, cands_b, run>>
    /\ UNCHANGED <<widgets, call>>

\* new_c = pass_c_subscription(...) and its merge loop
RunPassC ==
    /\ pc = "pass_c"
    /\ LET new == pass_c_subscription(bank_records, doc_records,
                                      unmatched_vouchers, unmatched_docs, creditors)
           st == merge(state, new, bank_records)
       IN  /\ new_c' = new
           /\ cands_c' =
                  LET considered == {i \in DOMAIN bank_records :
                          pass_c_considers(bank_records[i], unmatched_vouchers, creditors)}
                  IN  cands_of(bank_records, considered,
                          [i \in considered |->
                              pass_c_candidates(bank_records[i], doc_records,
                                                unmatched_docs, creditors)])
           /\ matches' = st.matches
           /\ unmatched_vouchers' = st.unmatched_vouchers
           /\ unmatched_docs' = st.unmatched_docs
    /\ before' = state
    /\ pc' = "save"
    /\ UNCHANGED <<inputs, matchinfo_file, new_a, new_b, cands_a, cands_b, run>>
    /\ UNCHANGED <<widgets, call>>

\* if new_a or new_b or new_c: save_matchinfo(...)
Save ==
    /\ pc = "save"
    /\ matchinfo_file' =
           IF new_a # EmptyDict \/ new_b # EmptyDict \/ new_c # EmptyDict
           THEN matches ELSE matchinfo_file
    /\ pc' = "review"
    /\ UNCHANGED <<inputs, matches, unmatched_vouchers, unmatched_docs,
                   new_a, new_b, new_c, cands_a, cands_b, cands_c, before, run>>
    /\ UNCHANGED <<widgets, call>>

\* the process ends (on_exit / save_and_exit save the MatchSet; the headless
\* sys.exit(0) leaves the file as Save wrote it)
Exit ==
    /\ pc = "review"
    /\ matchinfo_file' = matches
    /\ pc' = "exited"
    /\ UNCHANGED <<inputs, matches, unmatched_vouchers, unmatched_docs,
                   new_a, new_b, new_c, cands_a, cands_b, cands_c, before, run>>
    /\ UNCHANGED <<widgets, call>>

\* the program is started again on the same files: GrokMatcher.__init__
Construct ==
    /\ pc = "exited"
    /\ run < MaxRuns
    /\ run' = run + 1
    /\ matches' = matchinfo_file
    /\ unmatched_vouchers' = <<>>
    /\ unmatched_docs' = <<>>
    /\ new_a' = EmptyDict
    /\ new_b' = EmptyDict
    /\ new_c' = EmptyDict
    /\ cands_a' = EmptyDict
    /\ cands_b' = EmptyDict
    /\ cands_c' = EmptyDict
    /\ before' = [matches |-> matchinfo_file, unmatched_vouchers |-> <<>>,
                  unmatched_docs |-> <<>>]
    /\ pc' = "startup"
    /\ UNCHANGED <<inputs, matchinfo_file>>
    /\ UNCHANGED <<widgets, call>>

Next ==
    \/ Load
    \/ RunPassA
    \/ RunPassB
    \/ RunPassC
    \/ Save
    \/ Exit
    \/ Construct

Spec == Init /\ [][Next]_vars

-----------------------------------------------------------------------------
(* Vocabulary of the claims *)

AllVoucherIds == {bank_records[i].VoucherNumber : i \in DOMAIN bank_records}
AllDocumentIds == {doc_records[i].file : i \in DOMAIN doc_records}

DocOf(f) == doc_records[CHOOSE i \in DOMAIN doc_records : doc_records[i].file = f]

\* the cascade of this run has gone through Pass A / Pass B / Pass C
AfterA == pc \in {"pass_b", "pass_c", "save", "review", "exited"}
AfterB == pc \in {"pass_c", "save", "review", "exited"}
AfterC == pc \in {"save", "review", "exited"}

\* the unmatched documents, as Pass A found them, that hold the amount
UnmatchedWithAmount(pool, amt_key) ==
    {f \in Range(pool) \cap AllDocumentIds : doc_has_amount(DocOf(f), amt_key)}

\* the documents a pass committed
CommittedBy(new) == matched_docs_of(new)

-----------------------------------------------------------------------------
(* C1 .. C5 *)

\* C1: idempotence of the cascade.  A run that starts from the MatchSet a
\* previous run persisted adds no entry: when its Pass C has merged, the
\* MatchSet still equals the persisted one.
C1_Idempotence ==
    (run >= 2 /\ pc = "save") => matches = matchinfo_file

\* C2: consumed-once.  In a run that started from an empty MatchSet no
\* document is in the match lists of two different vouchers, whichever pass
\* committed them.
C2_ConsumedOnce ==
    (run = 1 /\ matchinfo_file = EmptyDict /\ pc \in {"pass_b", "pass_c", "save"}) =>
        \A v1 \in DOMAIN matches : \A v2 \in DOMAIN matches :
            v1 # v2 => Range(matches[v1]) \cap Range(matches[v2]) = {}

\* C3: Pass A sees unmatched documents only.  No document that was in a match
\* list when Pass A started is among the candidates Pass A counted for a
\* voucher, nor in a match Pass A returned.
C3_PassAUnmatchedOnly ==
    pc = "pass_b" =>
        /\ \A vn \in DOMAIN cands_a :
               Range(cands_a[vn]) \cap matched_docs_of(before.matches) = {}
        /\ CommittedBy(new_a) \cap matched_docs_of(before.matches) = {}

\* C4: singleton rule of Pass A.  A voucher whose rounded amount is carried by
\* two or more unmatched documents, or by none, is not matched by Pass A.
C4_SingletonRule ==
    pc = "pass_b" =>
        \A i \in DOMAIN bank_records :
            LET v == bank_records[i]
                n == Cardinality(UnmatchedWithAmount(before.unmatched_docs,
                                                     round2(v.Amount)))
            IN  n # 1 => v.VoucherNumber \notin DOMAIN new_a

\* C4, the half that the code keeps: an amount carried by two or more
\* unmatched documents never yields a Pass A match.
C4_SharedAmountNeverMatched ==
    pc = "pass_b" =>
        \A i \in DOMAIN bank_records :
            LET v == bank_records[i]
                n == Cardinality(UnmatchedWithAmount(before.unmatched_docs,
                                                     round2(v.Amount)))
            IN  n >= 2 => v.VoucherNumber \notin DOMAIN new_a

\* C5: Pass A matches every unambiguous voucher.  An unmatched voucher whose
\* rounded amount is held by exactly one unmatched document (however often
\* that document lists it) is matched by Pass A to that document.
C5_PassAMatchesUnambiguous ==
    pc = "pass_b" =>
        \A i \in DOMAIN bank_records :
            LET v == bank_records[i]
                D == UnmatchedWithAmount(before.unmatched_docs, round2(v.Amount))
            IN  (In(v.VoucherNumber, before.unmatched_vouchers) /\ Cardinality(D) = 1) =>
                    /\ v.VoucherNumber \in DOMAIN new_a
                    /\ Range(new_a[v.VoucherNumber]) = D
                    /\ Len(new_a[v.VoucherNumber]) = 1

-----------------------------------------------------------------------------
(* C6 .. C9 *)

\* every file of the collection, as a pool that no pass has narrowed
WholePool == sorted(AllDocumentIds)

\* C6: a document committed by Pass A is out of the pool when Pass B starts
\* and is a candidate of no voucher in Pass B or Pass C of the same run; a
\* document committed by Pass B is a candidate of no voucher in Pass C.
C6_CommittedNeverReconsidered ==
    /\ pc = "pass_b" => CommittedBy(new_a) \cap Range(unmatched_docs) = {}
    /\ AfterB => \A vn \in DOMAIN cands_b :
                     Range(cands_b[vn]) \cap CommittedBy(new_a) = {}
    /\ AfterC => \A vn \in DOMAIN cands_c :
                     Range(cands_c[vn]) \cap (CommittedBy(new_a) \cup CommittedBy(new_b)) = {}

\* C6 happens: Pass B has evaluated a voucher for which a document committed
\* by Pass A would have qualified by alias and date, had it stayed in the pool
C6_Witness ==
    /\ pc = "pass_c"
    /\ \E i \in DOMAIN bank_records :
           /\ pass_b_considers(bank_records[i], before.unmatched_vouchers, creditors)
           /\ \E d \in CommittedBy(new_a) :
                  In(d, pass_b_candidates(bank_records[i], doc_records,
                                          WholePool, creditors))

\* C7: monotonic narrowing.  After the merge of a pass each pool holds only
\* elements it held before the pass, and is no longer than before.
C7_MonotonicNarrowing ==
    /\ Range(unmatched_vouchers) \subseteq Range(before.unmatched_vouchers)
    /\ Range(unmatched_docs) \subseteq Range(before.unmatched_docs)
    /\ Len(unmatched_vouchers) <= Len(before.unmatched_vouchers)
    /\ Len(unmatched_docs) <= Len(before.unmatched_docs)

\* C7 happens: a pass has narrowed both pools of a run that had loaded a
\* non-empty MatchSet
C7_Witness ==
    /\ AfterA
    /\ before.matches # EmptyDict
    /\ Len(unmatched_vouchers) < Len(before.unmatched_vouchers)
    /\ Len(unmatched_docs) < Len(before.unmatched_docs)

\* C8: monotone extension.  After the merge of a pass every entry the
\* MatchSet had before the pass is still there with the same list, and every
\* new entry is a proposal of that pass for a voucher that had no entry.
C8_MonotoneExtension ==
    LET new == CASE pc = "pass_b" -> new_a
                 [] pc = "pass_c" -> new_b
                 [] pc = "save" -> new_c
                 [] OTHER -> EmptyDict
    IN  /\ DOMAIN before.matches \subseteq DOMAIN matches
        /\ \A vn \in DOMAIN before.matches : matches[vn] = before.matches[vn]
        /\ pc \in {"pass_b", "pass_c", "save"} =>
               \A vn \in DOMAIN matches \ DOMAIN before.matches :
                   vn \in DOMAIN new /\ matches[vn] = new[vn]

\* C8 happens: a pass has committed an entry into a MatchSet that already
\* had one
C8_Witness ==
    /\ pc \in {"pass_b", "pass_c", "save"}
    /\ before.matches # EmptyDict
    /\ DOMAIN matches # DOMAIN before.matches

\* C9: derived state.  From the load on, unmatched_vouchers holds exactly the
\* voucher numbers without an entry in the MatchSet and unmatched_docs
\* exactly the files named in no entry, each of them once.
C9_DerivedState ==
    pc # "startup" =>
        /\ Range(unmatched_vouchers) = AllVoucherIds \ DOMAIN matches
        /\ Range(unmatched_docs) = AllDocumentIds \ matched_docs_of(matches)
        /\ Len(unmatched_vouchers) = Cardinality(Range(unmatched_vouchers))
        /\ Len(unmatched_docs) = Cardinality(Range(unmatched_docs))

\* C9 happens: a pass has committed a document that was in the pool
C9_Witness ==
    /\ pc \in {"pass_b", "pass_c", "save"}
    /\ Range(before.unmatched_docs) \cap matched_docs_of(matches) # {}

-----------------------------------------------------------------------------
(* The passes as functions: pass_a_exact_amount, pass_b_alias_date and       *)
(* pass_c_subscription called on records, pools and creditors of the         *)
(* caller's choice                                                            *)

\* creditors for the calls: 1 has an alias with a frequency but no
\* start_date, 3 a monthly and 4 a bimonthly subscription that started on
\* day 5, 5 a subscription whose start_date does not parse, a quarterly
\* subscription and one whose frequency is not in frequency_deltas
PassCatalog ==
    [c \in {1, 3, 4, 5} |->
        [aliases |->
            CASE c = 1 -> <<alias(N, <<>>, "monthly", None)>>
              [] c = 3 -> <<alias(S, X, "monthly", 5)>>
              [] c = 4 -> <<alias(S, X, "bimonthly", 5)>>
              [] c = 5 -> <<alias(S, X, "monthly", BadIso),
                            alias(S, <<>>, "quarterly", 10),
                            alias(N, <<>>, "weekly", 44)>>]]

\* the vouchers of a call (amount, day, creditor): one per creditor of
\* PassCatalog, the bimonthly one 63 days after the start of its
\* subscription, one whose Date_iso does not parse, one of an unknown creditor
PassVouchers ==
    { voucher(5000, 100, 1),
      voucher(7000, 100, 3),
      voucher(7000, 68, 4),
      voucher(7000, 100, 5),
      voucher(5000, BadIso, 1),
      voucher(5000, 100, 9) }

\* the documents of a call: with two dates of which the second is the
\* closest, 15 days from day 100, dated 20, 3 and 10 days from day 100,
\* undated, with a date string that does not parse, with a vendor line that
\* has the prefix but not the postfix of the subscription alias, with either
\* of two amounts
PassDocs ==
    { doc(<<5000>>, <<140, 115>>, <<NA>>),
      doc(<<5000>>, <<120>>, <<NA>>),
      doc(<<7000>>, <<>>, <<SX>>),
      doc(<<7000>>, <<BadIso>>, <<SX>>),
      doc(<<7000>>, <<97>>, <<SX>>),
      doc(<<7000>>, <<110>>, <<SX>>),
      doc(<<7000>>, <<97>>, <<S>>) }

PassBankRecords ==
    { [i \in VoucherNumbers |->
          [VoucherNumber |-> i, Date_iso |-> f[i].Date_iso,
           Amount |-> f[i].Amount, CreditorID |-> f[i].CreditorID]] :
      f \in [VoucherNumbers -> PassVouchers] }

PassDocRecords ==
    { [i \in Files |->
          [file |-> i, dates |-> f[i].dates, amounts |-> f[i].amounts,
           vendors |-> f[i].vendors]] :
      f \in [Files -> PassDocs] }

\* the lists a caller may pass as unmatched_vouchers / unmatched_docs: every
\* id, or every id but the first
Pools(ids) == {sorted(ids), sorted(ids \ {1})}

InitPasses ==
    /\ bank_records \in PassBankRecords
    /\ doc_records \in PassDocRecords
    /\ creditors = PassCatalog
    /\ matchinfo_file = EmptyDict
    /\ matches = EmptyDict
    /\ unmatched_vouchers \in Pools(VoucherNumbers)
    /\ unmatched_docs \in Pools(Files)
    /\ new_a = EmptyDict
    /\ new_b = EmptyDict
    /\ new_c = EmptyDict
    /\ cands_a = EmptyDict
    /\ cands_b = EmptyDict
    /\ cands_c = EmptyDict
    /\ before = [matches |-> EmptyDict, unmatched_vouchers |-> unmatched_vouchers,
                 unmatched_docs |-> unmatched_docs]
    /\ pc = "call"
    /\ run = 1
    /\ current_index = 0
    /\ switch_all_docs = FALSE
    /\ switch_hide_matched = TRUE
    /\ table_data = <<>>
    /\ arg = None
    /\ ret = None
    /\ locals = NoLocals

\* new_matches = pass_a_exact_amount(bank_records, doc_records, ...)
CallPassA ==
    /\ pc = "call"
    /\ new_a' = pass_a_exact_amount(bank_records, doc_records,
                                    unmatched_vouchers, unmatched_docs)
    /\ cands_a' =
           LET considered == {i \in DOMAIN bank_records :
                   In(bank_records[i].VoucherNumber, unmatched_vouchers)}
           IN  cands_of(bank_records, considered,
                   [i \in considered |->
                       pass_a_candidates(bank_records[i], doc_records)])
    /\ pc' = "returned_a"
    /\ UNCHANGED <<inputs, matchinfo_file, matches, unmatched_vouchers,
                   unmatched_docs, new_b, new_c, cands_b, cands_c, before, run,
                   widgets, call>>

\* new_matches = pass_b_alias_date(bank_records, doc_records, ...)
CallPassB ==
    /\ pc = "call"
    /\ new_b' = pass_b_alias_date(bank_records, doc_records,
                                  unmatched_vouchers, unmatched_docs, creditors)
    /\ cands_b' =
           LET considered == {i \in DOMAIN bank_records :
                   pass_b_considers(bank_records[i], unmatched_vouchers, creditors)}
           IN  cands_of(bank_records, considered,
                   [i \in considered |->
                       pass_b_candidates(bank_records[i], doc_records,
                                         unmatched_docs, creditors)])
    /\ pc' = "returned_b"
    /\ UNCHANGED <<inputs, matchinfo_file, matches, unmatched_vouchers,
                   unmatched_docs, new_a, new_c, cands_a, cands_c, before, run,
                   widgets, call>>

\* new_matches = pass_c_subscription(bank_records, doc_records, ...)
CallPassC ==
    /\ pc = "call"
    /\ new_c' = pass_c_subscription(bank_records, doc_records,
                                    unmatched_vouchers, unmatched_docs, creditors)
    /\ cands_c' =
           LET considered == {i \in DOMAIN bank_records :
                   pass_c_considers(bank_records[i], unmatched_vouchers, creditors)}
           IN  cands_of(bank_records, considered,
                   [i \in considered |->
                       pass_c_candidates(bank_records[i], doc_records,
                                         unmatched_docs, creditors)])
    /\ pc' = "returned_c"
    /\ UNCHANGED <<inputs, matchinfo_file, matches, unmatched_vouchers,
                   unmatched_docs, new_a, new_b, cands_a, cands_b, before, run,
                   widgets, call>>

NextPasses ==
    \/ CallPassA
    \/ CallPassB
    \/ CallPassC

SpecPasses == InitPasses /\ [][NextPasses]_vars

-----------------------------------------------------------------------------
(* C11 *)

\* the line starts with the prefix, character by character
HasPrefix(line, pref) ==
    \A k \in 1..Len(pref) : k <= Len(line) /\ line[k] = pref[k]

\* the line ends with the postfix, character by character
HasPostfix(line, post) ==
    \A k \in 1..Len(post) :
        LET at == Len(line) - Len(post) + k
        IN  at >= 1 /\ line[at] = post[k]

\* the line matches the alias: its prefix and, when there is one, its postfix
LineMatches(line, a) ==
    /\ HasPrefix(line, a.prefix)
    /\ (a.postfix # <<>> => HasPostfix(line, a.postfix))

\* some vendor line of the document matches some alias of the list
SomeLineMatches(d, aliases) ==
    \E line \in Range(d.vendors) : \E a \in Range(aliases) : LineMatches(line, a)

\* the dates of a document that parse
DatesOf(d) == Range(d.dates) \ {BadIso, None}

\* the unmatched documents of the call
UnmatchedDocs == {f \in AllDocumentIds : In(f, unmatched_docs)}

\* C11: Pass B rule.  For an unmatched voucher with a known creditor and a
\* valid date, the candidates Pass B counted are exactly the unmatched
\* documents with a vendor line matching an alias of the creditor and with
\* either no date or a date at most 15 days from the voucher date, each
\* counted once; Pass B returns voucher -> [doc] iff there is exactly one.
C11_PassBRule ==
    pc = "returned_b" =>
        \A i \in DOMAIN bank_records :
            LET v == bank_records[i]
                vn == v.VoucherNumber
            IN  (/\ In(vn, unmatched_vouchers)
                 /\ v.CreditorID \in DOMAIN creditors
                 /\ v.Date_iso >= 0) =>
                    LET C == {f \in UnmatchedDocs :
                                 /\ SomeLineMatches(DocOf(f),
                                                    creditors[v.CreditorID].aliases)
                                 /\ \/ DatesOf(DocOf(f)) = {}
                                    \/ \E x \in DatesOf(DocOf(f)) :
                                           Abs(x - v.Date_iso) <= 15}
                    IN  /\ vn \in DOMAIN cands_b
                        /\ Range(cands_b[vn]) = C
                        /\ Len(cands_b[vn]) = Cardinality(C)
                        /\ vn \in DOMAIN new_b <=> Cardinality(C) = 1
                        /\ vn \in DOMAIN new_b =>
                               Len(new_b[vn]) = 1 /\ Range(new_b[vn]) = C

\* C11 happens: Pass B has committed the one candidate of a voucher and left
\* out an unmatched document whose vendor line matched but whose closest
\* date was more than 15 days away
C11_Witness ==
    /\ pc = "returned_b"
    /\ \E i \in DOMAIN bank_records :
           LET v == bank_records[i]
           IN  /\ v.VoucherNumber \in DOMAIN new_b
               /\ \E f \in UnmatchedDocs \ Range(new_b[v.VoucherNumber]) :
                      /\ matched_alias(DocOf(f), creditors[v.CreditorID].aliases)
                      /\ DatesOf(DocOf(f)) # {}

-----------------------------------------------------------------------------
(* C12 *)

\* C12: Pass C undated fallback.  A document without dates is among the
\* candidates Pass C counted for a voucher only if the creditor has an alias
\* of bimonthly frequency whose start date is a multiple of 60 days, give or
\* take 7, away from the voucher date; never through an alias of another
\* frequency.
C12_UndatedFallback ==
    pc = "returned_c" =>
        \A i \in DOMAIN bank_records :
            LET v == bank_records[i]
                vn == v.VoucherNumber
            IN  vn \in DOMAIN cands_c =>
                    \A f \in Range(cands_c[vn]) :
                        DatesOf(DocOf(f)) = {} =>
                            \E a \in Range(creditors[v.CreditorID].aliases) :
                                /\ a.frequency = "bimonthly"
                                /\ a.start_date >= 0
                                /\ Abs(v.Date_iso - a.start_date) % 60 <= 7

-----------------------------------------------------------------------------
(* C13 *)

\* the aliases of a creditor that carry both a frequency and a start date
SubscriptionAliases(c) ==
    {a \in Range(creditors[c].aliases) : a.frequency # "" /\ a.start_date # None}

\* the fixed number of days of a frequency
Period(freq) ==
    CASE freq = "monthly" -> 30
      [] freq = "quarterly" -> 90
      [] freq = "semi-annual" -> 180
      [] freq = "bimonthly" -> 60
      [] OTHER -> 30

\* the expected occurrences of a subscription alias for a voucher date: the
\* days from the start date to one period after the voucher date that are a
\* whole number of periods after the start date
Occurrences(a, v_date) ==
    {x \in a.start_date .. (v_date + Period(a.frequency)) :
        (x - a.start_date) % Period(a.frequency) = 0}

-----------------------------------------------------------------------------
(* The date computations of the passes and of the scorer, on their own: the  *)
(* schedule of a subscription alias and the choice of the closest date       *)

\* the frequencies of frequency_deltas and one that is not a key of it
Frequencies == {"monthly", "quarterly", "semi-annual", "bimonthly", "weekly"}

\* start dates of a subscription: before, at and after the voucher dates,
\* and later than a voucher date plus the longest period
StartDays == {0, 5, 40, 100, 131, 200, 400}

\* voucher dates
VoucherDays == {10, 100, 130}

\* dates a document may list: 5 and 20 days on either side of day 100, and
\* day 100 itself
DocDays == {80, 95, 100, 105, 120}

\* doc_dates: the non-empty lists of at most MaxDates parsed dates, in the
\* order the document lists them
DateLists == UNION {[1..n -> DocDays] : n \in 1..MaxDates}

InitDates ==
    /\ arg \in [frequency : Frequencies, start_date : StartDays,
                v_date : VoucherDays, doc_dates : DateLists]
    /\ ret = None
    /\ locals = NoLocals
    /\ pc = "call"
    /\ bank_records = <<>>
    /\ doc_records = <<>>
    /\ creditors = EmptyDict
    /\ matchinfo_file = EmptyDict
    /\ matches = EmptyDict
    /\ unmatched_vouchers = <<>>
    /\ unmatched_docs = <<>>
    /\ new_a = EmptyDict
    /\ new_b = EmptyDict
    /\ new_c = EmptyDict
    /\ cands_a = EmptyDict
    /\ cands_b = EmptyDict
    /\ cands_c = EmptyDict
    /\ before = [matches |-> EmptyDict, unmatched_vouchers |-> <<>>,
                 unmatched_docs |-> <<>>]
    /\ run = 1
    /\ current_index = 0
    /\ switch_all_docs = FALSE
    /\ switch_hide_matched = TRUE
    /\ table_data = <<>>

\* everything but the call
program == <<bank_records, doc_records, creditors, matchinfo_file, matches,
             unmatched_vouchers, unmatched_docs, new_a, new_b, new_c,
             cands_a, cands_b, cands_c, before, run, widgets>>

\* delta = frequency_deltas.get(freq, ...) and the while loop of Pass C
BuildSchedule ==
    /\ pc = "call"
    /\ ret' = expected_dates(arg.start_date, arg.start_date, arg.v_date,
                             delta_of(arg.frequency))
    /\ pc' = "returned_schedule"
    /\ UNCHANGED <<arg, locals, program>>

\* closest = min(doc_dates, key=lambda dd: abs((dd - v_date).days))
PickClosest ==
    /\ pc = "call"
    /\ ret' = closest_date(arg.doc_dates, arg.v_date)
    /\ pc' = "returned_closest"
    /\ UNCHANGED <<arg, locals, program>>

NextDates ==
    \/ BuildSchedule
    \/ PickClosest

SpecDates == InitDates /\ [][NextDates]_vars

-----------------------------------------------------------------------------
(* C14 *)

\* the frequencies the schedule rule names
NamedFrequencies == {"monthly", "quarterly", "semi-annual", "bimonthly"}

\* C14: Pass C schedule.  For a monthly, quarterly, semi-annual or bimonthly
\* alias (period 30, 90, 180, 60 days) the expected occurrences are exactly
\* the dates startDate + k * period, k = 0, 1, 2, ..., that are not later
\* than voucherDate + period, each listed once in ascending order; there is
\* none when startDate is later than voucherDate + period.
C14_Schedule ==
    (pc = "returned_schedule" /\ arg.frequency \in NamedFrequencies) =>
        LET P == Period(arg.frequency)
            last == arg.v_date + P
            Expected == {x \in {arg.start_date + k * P : k \in 0..last} : x <= last}
        IN  /\ Range(ret) = Expected
            /\ \A i \in DOMAIN ret : \A j \in DOMAIN ret : i < j => ret[i] < ret[j]
            /\ arg.start_date > last => ret = <<>>

\* C14 happens: a schedule of several occurrences whose last one falls after
\* the voucher date
C14_Witness ==
    /\ pc = "returned_schedule"
    /\ arg.frequency \in NamedFrequencies
    /\ Len(ret) >= 3
    /\ ret[Len(ret)] > arg.v_date

-----------------------------------------------------------------------------
(* C15 *)

\* C15: closest-date selection.  The date taken as closest is one of the
\* document's dates, none of them is nearer to the reference date, and of two
\* dates equally near (one before, one after the reference) it is the earlier
\* one, in whatever order the document lists them.
C15_ClosestEarlierOnTie ==
    pc = "returned_closest" =>
        /\ ret \in Range(arg.doc_dates)
        /\ \A d \in Range(arg.doc_dates) :
               Abs(ret - arg.v_date) <= Abs(d - arg.v_date)
        /\ \A d \in Range(arg.doc_dates) :
               Abs(d - arg.v_date) = Abs(ret - arg.v_date) => ret <= d

-----------------------------------------------------------------------------
(* C16 *)

\* the voucher names a creditor that is not in the catalog
UnknownCreditor(v) == v.CreditorID \notin DOMAIN creditors

\* C16: unknown creditor.  A voucher whose creditor is not in the catalog is
\* not evaluated and not matched by Pass B or Pass C; Pass A evaluates it
\* like any other voucher, and when two or more unmatched documents hold its
\* amount it is as unmatched after each of the three passes as it was before;
\* every other voucher that qualifies for Pass B or Pass C is evaluated by it.
C16_UnknownCreditor ==
    /\ \A i \in DOMAIN bank_records :
           LET v == bank_records[i]
               vn == v.VoucherNumber
               n == Cardinality(UnmatchedWithAmount(before.unmatched_docs,
                                                    round2(v.Amount)))
           IN  UnknownCreditor(v) =>
                   /\ AfterB => vn \notin DOMAIN cands_b /\ vn \notin DOMAIN new_b
                   /\ AfterC => vn \notin DOMAIN cands_c /\ vn \notin DOMAIN new_c
                   /\ (pc = "pass_b" /\ In(vn, before.unmatched_vouchers)) =>
                          /\ vn \in DOMAIN cands_a
                          /\ Len(cands_a[vn]) = 1 => vn \in DOMAIN new_a
                          /\ n >= 2 => (vn \notin DOMAIN matches
                                        /\ In(vn, unmatched_vouchers))
                   /\ (pc \in {"pass_c", "save"} /\ In(vn, before.unmatched_vouchers)) =>
                          (vn \notin DOMAIN matches /\ In(vn, unmatched_vouchers))
    /\ pc = "pass_c" =>
           \A i \in DOMAIN bank_records :
               pass_b_considers(bank_records[i], before.unmatched_vouchers, creditors)
                   => bank_records[i].VoucherNumber \in DOMAIN cands_b
    /\ pc = "save" =>
           \A i \in DOMAIN bank_records :
               pass_c_considers(bank_records[i], before.unmatched_vouchers, creditors)
                   => bank_records[i].VoucherNumber \in DOMAIN cands_c

\* C16 happens: the three passes have run on an empty MatchSet; a voucher of
\* an unknown creditor whose amount two documents hold is still unmatched,
\* and a voucher that follows it in the bank file has been matched by Pass B
\* or Pass C
C16_Witness ==
    /\ pc = "save"
    /\ run = 1
    /\ matchinfo_file = EmptyDict
    /\ \E i \in DOMAIN bank_records : \E j \in DOMAIN bank_records :
           LET v == bank_records[i]
           IN  /\ i < j
               /\ UnknownCreditor(v)
               /\ Cardinality(UnmatchedWithAmount(WholePool, round2(v.Amount))) >= 2
               /\ v.VoucherNumber \notin DOMAIN matches
               /\ bank_records[j].VoucherNumber \in DOMAIN new_b \cup DOMAIN new_c

-----------------------------------------------------------------------------
(* C17 *)

\* the voucher's Date_iso is a string datetime.fromisoformat rejects
UnparsableDate(v) == v.Date_iso = BadIso

C17_PassBCSkip ==
    /\ \A i \in DOMAIN bank_records :
           LET v == bank_records[i]
           IN  UnparsableDate(v) =>
                   /\ pc = "returned_b" => v.VoucherNumber \notin DOMAIN new_b
                   /\ pc = "returned_c" => v.VoucherNumber \notin DOMAIN new_c
    /\ pc = "returned_b" =>
           \A i \in DOMAIN bank_records :
               pass_b_considers(bank_records[i], unmatched_vouchers, creditors)
                   => bank_records[i].VoucherNumber \in DOMAIN cands_b
    /\ pc = "returned_c" =>
           \A i \in DOMAIN bank_records :
               pass_c_considers(bank_records[i], unmatched_vouchers, creditors)
                   => bank_records[i].VoucherNumber \in DOMAIN cands_c

-----------------------------------------------------------------------------
(* The review window: refresh_table (the scorer) and the handlers of the     *)
(* buttons and switches                                                       *)

\* str(score) of a non-negative int: its decimal digits, most significant first
RECURSIVE str(_)
str(n) == IF n < 10 THEN <<n>> ELSE str(n \div 10) \o <<n % 10>>

\* int(r['score']) of a string of decimal digits
RECURSIVE int(_)
int(digits) ==
    IF digits = <<>> THEN 0
    ELSE int(SubSeq(digits, 1, Len(digits) - 1)) * 10 + digits[Len(digits)]

\* self.voucher_map[vn]: the last record of bank_records with that number
voucher_map(records, vn) ==
    records[CHOOSE i \in DOMAIN records :
                /\ records[i].VoucherNumber = vn
                /\ \A j \in DOMAIN records : records[j].VoucherNumber = vn => j <= i]

\* score += 50 when the rounded voucher amount is among the rounded amounts
amount_score(v, d) == IF doc_has_amount(d, round2(v.Amount)) THEN 50 ELSE 0

\* alias_bonus that adds 30 for every alias of the creditor that matches a
\* vendor line, instead of stopping at the first
alias_bonus_per_alias(v, d, creds) ==
    IF v.CreditorID \in DOMAIN creds
    THEN 30 * Cardinality({k \in DOMAIN creds[v.CreditorID].aliases :
                               matched_alias(d, <<creds[v.CreditorID].aliases[k]>>)})
    ELSE 0

\* alias_bonus: 30 at the first alias of a known creditor that matches a line
alias_bonus(v, d, creds) ==
    IF v.CreditorID \in DOMAIN creds /\ matched_alias(d, creds[v.CreditorID].aliases)
    THEN 30 ELSE 0

\* date_bonus from the distance of the closest parsable date
date_bonus(v, d) ==
    LET doc_dates == doc_dates_of(d)
    IN  IF doc_dates # <<>>
        THEN LET diff_days == Abs(closest_date(doc_dates, v.Date_iso) - v.Date_iso)
             IN  IF diff_days <= 7 THEN 20
                 ELSE IF diff_days <= 15 THEN 10
                 ELSE IF diff_days <= 30 THEN 5
                 ELSE 0
        ELSE 0

score_of(v, d, creds) == amount_score(v, d) + alias_bonus(v, d, creds) + date_bonus(v, d)

\* row_before that compares the scores only: rows of equal score stay in the
\* order of doc_records
row_before_score_only(r1, r2) == int(r1.score) > int(r2.score)

\* the order of rows.sort(key=lambda r: (-int(r['score']), r['file']))
row_before(r1, r2) ==
    \/ -int(r1.score) < -int(r2.score)
    \/ /\ -int(r1.score) = -int(r2.score)
       /\ r1.file < r2.file

\* list.sort is stable: a row goes after the rows that are not after it
RECURSIVE insert_row(_, _)
insert_row(rows, r) ==
    IF rows = <<>> THEN <<r>>
    ELSE IF row_before(r, Head(rows)) THEN <<r>> \o rows
    ELSE <<Head(rows)>> \o insert_row(Tail(rows), r)

RECURSIVE sort_rows(_)
sort_rows(rows) ==
    IF rows = <<>> THEN <<>>
    ELSE insert_row(sort_rows(SubSeq(rows, 1, Len(rows) - 1)), rows[Len(rows)])

\* refresh_table without the test of switch_hide_matched: the documents of
\* the MatchSet stay in the table
refresh_table_shows_matched(table, u_vouchers, index, records, docs, creds, m, all_docs, hide_matched) ==
    IF u_vouchers = <<>> THEN <<>>
    ELSE IF index + 1 \notin DOMAIN u_vouchers THEN table
    ELSE LET v == voucher_map(records, u_vouchers[index + 1])
             matched_docs == matched_docs_of(m)
             kept == SelectSeq(docs, LAMBDA d :
                         /\ ~(~all_docs /\ score_of(v, d, creds) = 0))
             rows == [i \in DOMAIN kept |->
                         [file |-> kept[i].file,
                          score |-> str(score_of(v, kept[i], creds))]]
         IN  IF v.Date_iso < 0 THEN table ELSE sort_rows(rows)

\* refresh_table: the new self.table.data.  A row keeps the file and the score
\* (a string); the columns dates, amounts and vendors only format the
\* document for display.  An exception inside the try block (an index out of
\* range, a voucher date that does not parse) is logged and leaves the table
\* as it was.
refresh_table(table, u_vouchers, index, records, docs, creds, m, all_docs, hide_matched) ==
    IF u_vouchers = <<>> THEN <<>>
    ELSE IF index + 1 \notin DOMAIN u_vouchers THEN table
    ELSE LET v == voucher_map(records, u_vouchers[index + 1])
             matched_docs == matched_docs_of(m)
             kept == SelectSeq(docs, LAMBDA d :
                         /\ ~(hide_matched /\ d.file \in matched_docs)
                         /\ ~(~all_docs /\ score_of(v, d, creds) = 0))
             rows == [i \in DOMAIN kept |->
                         [file |-> kept[i].file,
                          score |-> str(score_of(v, kept[i], creds))]]
         IN  IF v.Date_iso < 0 THEN table ELSE sort_rows(rows)

\* show_record: nothing without an unmatched voucher, else refresh_table
show_record(table, u_vouchers, index, records, docs, creds, m, all_docs, hide_matched) ==
    IF u_vouchers = <<>> THEN table
    ELSE refresh_table(table, u_vouchers, index, records, docs, creds, m,
                       all_docs, hide_matched)

\* startup up to the save: the load, then each pass followed by its merge
startup(records, docs, creds, m) ==
    LET s0 == [matches |-> m,
               unmatched_vouchers |-> load_unmatched_vouchers(records, m),
               unmatched_docs |-> load_unmatched_docs(docs, m)]
        s1 == merge(s0, pass_a_exact_amount(records, docs, s0.unmatched_vouchers,
                                            s0.unmatched_docs), records)
        s2 == merge(s1, pass_b_alias_date(records, docs, s1.unmatched_vouchers,
                                          s1.unmatched_docs, creds), records)
    IN  merge(s2, pass_c_subscription(records, docs, s2.unmatched_vouchers,
                                      s2.unmatched_docs, creds), records)

\* the vouchers under review (amount, day, creditor): of a creditor with one
\* alias, of a creditor with three, of an unknown creditor
ReviewVouchers ==
    { voucher(5000, 88, 1),
      voucher(5000, 100, 5),
      voucher(5000, 100, 9) }

\* the documents under review: the amount (twice after rounding), or another
\* or none; a date 3 or 15 days from the voucher's, none, a closest date 12
\* or 24 days away listed last, a date 40 days away or more; vendor lines
\* that match one alias, several or none
ReviewDocs ==
    { doc(<<5000, 5001>>, <<103>>, <<NA, SX>>),
      doc(<<5000>>, <<>>, <<SX>>),
      doc(<<>>, <<BadIso, 140, 112>>, <<NB>>),
      doc(<<7000>>, <<140>>, <<X>>) }

ReviewBankRecords ==
    { [i \in VoucherNumbers |->
          [VoucherNumber |-> i, Date_iso |-> f[i].Date_iso,
           Amount |-> f[i].Amount, CreditorID |-> f[i].CreditorID]] :
      f \in [VoucherNumbers -> ReviewVouchers] }

\* the orders in which a docdata file may list its files: ascending or
\* descending
FileOrders == {[i \in Files |-> i], [i \in Files |-> NumDocs + 1 - i]}

ReviewDocRecords ==
    { [i \in Files |->
          [file |-> p[i], dates |-> f[i].dates, amounts |-> f[i].amounts,
           vendors |-> f[i].vendors]] :
      f \in [Files -> ReviewDocs], p \in FileOrders }

\* the window as startup leaves it: the cascade has run and been saved,
\* the first unmatched voucher is shown; without an unmatched voucher the
\* window is closed at once
InitReview ==
    /\ bank_records \in ReviewBankRecords
    /\ doc_records \in ReviewDocRecords
    /\ creditors = PassCatalog
    /\ \E m \in PriorMatchSets :
           LET st == startup(bank_records, doc_records, creditors, m)
           IN  /\ matches = st.matches
               /\ unmatched_vouchers = st.unmatched_vouchers
               /\ unmatched_docs = st.unmatched_docs
    /\ matchinfo_file = matches
    /\ new_a = EmptyDict
    /\ new_b = EmptyDict
    /\ new_c = EmptyDict
    /\ cands_a = EmptyDict
    /\ cands_b = EmptyDict
    /\ cands_c = EmptyDict
    /\ before = [matches |-> matches, unmatched_vouchers |-> unmatched_vouchers,
                 unmatched_docs |-> unmatched_docs]
    /\ run = 1
    /\ current_index = 0
    /\ switch_all_docs = FALSE
    /\ switch_hide_matched = TRUE
    /\ table_data = show_record(<<>>, unmatched_vouchers, 0, bank_records,
                                doc_records, creditors, matches, FALSE, TRUE)
    /\ pc = IF unmatched_vouchers # <<>> THEN "review" ELSE "exited"
    /\ arg = None
    /\ ret = None
    /\ locals = NoLocals

\* what the handlers of the window never assign
fixed == <<inputs, new_a, new_b, new_c, cands_a, cands_b, cands_c, before, run, call>>

\* prev_record
PrevRecord ==
    /\ pc = "review"
    /\ current_index > 0
    /\ current_index' = current_index - 1
    /\ table_data' = show_record(table_data, unmatched_vouchers, current_index',
                                 bank_records, doc_records, creditors, matches,
                                 switch_all_docs, switch_hide_matched)
    /\ UNCHANGED <<matches, unmatched_vouchers, unmatched_docs, matchinfo_file,
                   switch_all_docs, switch_hide_matched, pc, fixed>>

\* next_record that also takes the best row of the new table as the match of
\* the voucher it shows
NextRecordCommitsBest ==
    /\ pc = "review"
    /\ current_index < Len(unmatched_vouchers) - 1
    /\ current_index' = current_index + 1
    /\ table_data' = show_record(table_data, unmatched_vouchers, current_index',
                                 bank_records, doc_records, creditors, matches,
                                 switch_all_docs, switch_hide_matched)
    /\ matches' = IF table_data' # <<>>
                  THEN commit_entry(matches, unmatched_vouchers[current_index' + 1],
                                    <<table_data'[1].file>>)
                  ELSE matches
    /\ UNCHANGED <<unmatched_vouchers, unmatched_docs, matchinfo_file,
                   switch_all_docs, switch_hide_matched, pc, fixed>>

\* next_record
NextRecord ==
    /\ pc = "review"
    /\ current_index < Len(unmatched_vouchers) - 1
    /\ current_index' = current_index + 1
    /\ table_data' = show_record(table_data, unmatched_vouchers, current_index',
                                 bank_records, doc_records, creditors, matches,
                                 switch_all_docs, switch_hide_matched)
    /\ UNCHANGED <<matches, unmatched_vouchers, unmatched_docs, matchinfo_file,
                   switch_all_docs, switch_hide_matched, pc, fixed>>

\* the user flips switch_all_docs: on_toggle calls refresh_table
ToggleAllDocs ==
    /\ pc = "review"
    /\ switch_all_docs' = ~switch_all_docs
    /\ table_data' = refresh_table(table_data, unmatched_vouchers, current_index,
                                   bank_records, doc_records, creditors, matches,
                                   switch_all_docs', switch_hide_matched)
    /\ UNCHANGED <<matches, unmatched_vouchers, unmatched_docs, matchinfo_file,
                   current_index, switch_hide_matched, pc, fixed>>

\* the user flips switch_hide_matched: on_toggle calls refresh_table
ToggleHideMatched ==
    /\ pc = "review"
    /\ switch_hide_matched' = ~switch_hide_matched
    /\ table_data' = refresh_table(table_data, unmatched_vouchers, current_index,
                                   bank_records, doc_records, creditors, matches,
                                   switch_all_docs, switch_hide_matched')
    /\ UNCHANGED <<matches, unmatched_vouchers, unmatched_docs, matchinfo_file,
                   current_index, switch_all_docs, pc, fixed>>

\* match_record without the adjustment of current_index to the shortened list
MatchRecordKeepsIndex ==
    /\ pc = "review"
    /\ \E row \in DOMAIN table_data :
           LET vn == unmatched_vouchers[current_index + 1]
               doc_file == table_data[row].file
               entry == IF vn \notin DOMAIN matches THEN <<doc_file>>
                        ELSE IF In(doc_file, matches[vn]) THEN matches[vn]
                        ELSE Append(matches[vn], doc_file)
               left == remove(unmatched_vouchers, vn)
               index == current_index
           IN  /\ matches' = commit_entry(matches, vn, entry)
               /\ unmatched_vouchers' = left
               /\ matchinfo_file' = matches'
               /\ current_index' = index
               /\ table_data' = show_record(table_data, left, index, bank_records,
                                            doc_records, creditors, matches',
                                            switch_all_docs, switch_hide_matched)
               /\ pc' = IF left # <<>> THEN "review" ELSE "exited"
    /\ UNCHANGED <<unmatched_docs, switch_all_docs, switch_hide_matched, fixed>>

\* match_record with the row the user selected in the table; without a
\* selection it shows a dialog and returns
MatchRecord ==
    /\ pc = "review"
    /\ \E row \in DOMAIN table_data :
           LET vn == unmatched_vouchers[current_index + 1]
               doc_file == table_data[row].file
               entry == IF vn \notin DOMAIN matches THEN <<doc_file>>
                        ELSE IF In(doc_file, matches[vn]) THEN matches[vn]
                        ELSE Append(matches[vn], doc_file)
               left == remove(unmatched_vouchers, vn)
               index == IF current_index >= Len(left)
                        THEN (IF Len(left) - 1 > 0 THEN Len(left) - 1 ELSE 0)
                        ELSE current_index
           IN  /\ matches' = commit_entry(matches, vn, entry)
               /\ unmatched_vouchers' = left
               /\ matchinfo_file' = matches'
               /\ current_index' = index
               /\ table_data' = show_record(table_data, left, index, bank_records,
                                            doc_records, creditors, matches',
                                            switch_all_docs, switch_hide_matched)
               /\ pc' = IF left # <<>> THEN "review" ELSE "exited"
    /\ UNCHANGED <<unmatched_docs, switch_all_docs, switch_hide_matched, fixed>>

\* save_and_exit: the MatchSet is saved and the window closed
SaveAndExit ==
    /\ pc = "review"
    /\ matchinfo_file' = matches
    /\ pc' = "exited"
    /\ UNCHANGED <<matches, unmatched_vouchers, unmatched_docs, widgets, fixed>>

NextReview ==
    \/ PrevRecord
    \/ NextRecord
    \/ ToggleAllDocs
    \/ ToggleHideMatched
    \/ MatchRecord
    \/ SaveAndExit

SpecReview == InitReview /\ [][NextReview]_vars

-----------------------------------------------------------------------------
(* C18 *)

\* the voucher the window shows
Shown == voucher_map(bank_records, unmatched_vouchers[current_index + 1])

\* 50 when the document holds the voucher's rounded amount
AmountPart(v, d) ==
    IF \E x \in Range(d.amounts) : round2(x) = round2(v.Amount) THEN 50 ELSE 0

\* 30 when the creditor is known and a vendor line matches one of its aliases
AliasPart(v, d) ==
    IF /\ v.CreditorID \in DOMAIN creditors
       /\ \E line \in Range(d.vendors) :
              \E a \in Range(creditors[v.CreditorID].aliases) : LineMatches(line, a)
    THEN 30 ELSE 0

\* 20, 10, 5 or 0 by the least distance of a date of the document to the
\* voucher date; 0 without a date
DatePart(v, d) ==
    IF DatesOf(d) = {} THEN 0
    ELSE LET dist == CHOOSE m \in {Abs(x - v.Date_iso) : x \in DatesOf(d)} :
                         \A x \in DatesOf(d) : m <= Abs(x - v.Date_iso)
         IN  CASE dist <= 7 -> 20
               [] dist > 7 /\ dist <= 15 -> 10
               [] dist > 15 /\ dist <= 30 -> 5
               [] OTHER -> 0

\* C18: scorer formula.  Every row of the table carries, for the voucher
\* shown and the document of the row, the score 50 (amount) + 30 (alias of a
\* known creditor, once) + 20/10/5/0 (closest date within 7/15/30/more days,
\* 0 without dates), a number between 0 and 100; with both filters off every
\* document has a row.
C18_ScoreFormula ==
    pc = "review" =>
        /\ \A r \in DOMAIN table_data :
               LET d == DocOf(table_data[r].file)
                   total == AmountPart(Shown, d) + AliasPart(Shown, d) + DatePart(Shown, d)
               IN  /\ int(table_data[r].score) = total
                   /\ table_data[r].score = str(total)
                   /\ int(table_data[r].score) \in 0..100
        /\ (switch_all_docs /\ ~switch_hide_matched) =>
               {table_data[r].file : r \in DOMAIN table_data} = AllDocumentIds

\* C18 happens: the table shows, for a voucher whose creditor has several
\* aliases that match a vendor line, a document with all three parts of the
\* score, and a document with none
C18_Witness ==
    /\ pc = "review"
    /\ Shown.CreditorID \in DOMAIN creditors
    /\ Cardinality({k \in DOMAIN creditors[Shown.CreditorID].aliases :
           \E r \in DOMAIN table_data :
               /\ int(table_data[r].score) = 100
               /\ matched_alias(DocOf(table_data[r].file),
                                <<creditors[Shown.CreditorID].aliases[k]>>)}) >= 2
    /\ \E r \in DOMAIN table_data : int(table_data[r].score) = 0

-----------------------------------------------------------------------------
(* C19 *)

\* doc_records in the opposite order
ReversedDocs == [i \in DOMAIN doc_records |-> doc_records[Len(doc_records) - i + 1]]

\* C19: scorer ordering.  The rows of the table are in descending order of
\* score and, among rows of equal score, in ascending order of file; the
\* table is the same when the documents are listed in the opposite order.
C19_Ordering ==
    pc = "review" =>
        /\ \A i \in DOMAIN table_data : \A j \in DOMAIN table_data :
               i < j =>
                   \/ int(table_data[i].score) > int(table_data[j].score)
                   \/ /\ int(table_data[i].score) = int(table_data[j].score)
                      /\ table_data[i].file < table_data[j].file
        /\ table_data = refresh_table(table_data, unmatched_vouchers, current_index,
                                      bank_records, ReversedDocs, creditors, matches,
                                      switch_all_docs, switch_hide_matched)

\* C19 happens: the table shows two documents of equal score that the
\* docdata file lists in descending order of file
C19_Witness ==
    /\ pc = "review"
    /\ \E i \in DOMAIN table_data : \E j \in DOMAIN table_data :
           /\ i < j
           /\ int(table_data[i].score) = int(table_data[j].score)
           /\ \E k \in DOMAIN doc_records : \E l \in DOMAIN doc_records :
                  /\ k < l
                  /\ doc_records[k].file = table_data[j].file
                  /\ doc_records[l].file = table_data[i].file

-----------------------------------------------------------------------------
(* C20 *)

\* C20: scorer purity.  A step that only recomputes the table (prev_record,
\* next_record, or a flip of one of the two switches) leaves the MatchSet,
\* unmatched_vouchers and unmatched_docs as they were.
C20_ScorerPurity ==
    [][(PrevRecord \/ NextRecord \/ ToggleAllDocs \/ ToggleHideMatched) =>
           UNCHANGED <<matches, unmatched_vouchers, unmatched_docs>>]_vars

\* C20 happens: the window shows the second unmatched voucher with
\* switch_all_docs on, and its table has a row that could be taken
C20_Witness ==
    /\ pc = "review"
    /\ current_index >= 1
    /\ switch_all_docs
    /\ table_data # <<>>

-----------------------------------------------------------------------------
(* C21 *)

\* the orders in which the bank file may list its vouchers
VoucherOrders ==
    {p \in [DOMAIN bank_records -> DOMAIN bank_records] :
        \A i \in DOMAIN p : \A j \in DOMAIN p : p[i] = p[j] => i = j}

\* bank_records listed in the order p
Reordered(p) == [i \in DOMAIN bank_records |-> bank_records[p[i]]]

-----------------------------------------------------------------------------
(* The cascade on empty input: startup from a load that left no unmatched    *)
(* voucher or no unmatched document                                          *)

\* vouchers (amount, day, creditor) that Pass B, Pass C and Pass A would match
\* to the documents of EmptyInputDocs
EmptyInputVouchers ==
    { voucher(5000, 100, 1),
      voucher(7000, 100, 3),
      voucher(5000, 100, 9) }

EmptyInputDocs ==
    { doc(<<5000>>, <<>>, <<>>),
      doc(<<>>, <<BadIso, 98>>, <<NA>>),
      doc(<<7000, 7000>>, <<125>>, <<NB, SX>>) }

EmptyInputBankFiles ==
    { [i \in VoucherNumbers |->
          [VoucherNumber |-> i, Date_iso |-> f[i].Date_iso,
           Amount |-> f[i].Amount, CreditorID |-> f[i].CreditorID]] :
      f \in [VoucherNumbers -> EmptyInputVouchers] }

\* docdata files of one document, ... NumDocs documents (load_doc_records
\* exits on a file without documents)
EmptyInputDocFiles ==
    UNION { { [i \in 1..n |->
                  [file |-> i, dates |-> f[i].dates, amounts |-> f[i].amounts,
                   vendors |-> f[i].vendors]] :
              f \in [1..n -> EmptyInputDocs] } : n \in 1..NumDocs }

\* the MatchSets earlier runs may have persisted for these files: some of the
\* vouchers have the one document that was committed for them
MatchSetsOf(records, docs) ==
    UNION { [V -> {<<docs[i].file>> : i \in DOMAIN docs}] :
            V \in SUBSET {records[i].VoucherNumber : i \in DOMAIN records} }

\* startup has loaded the files and derived the pools, and one of the pools
\* is empty
InitEmptyInput ==
    /\ bank_records \in EmptyInputBankFiles
    /\ doc_records \in EmptyInputDocFiles
    /\ creditors = Catalog
    /\ matchinfo_file \in MatchSetsOf(bank_records, doc_records)
    /\ matches = matchinfo_file
    /\ unmatched_vouchers = load_unmatched_vouchers(bank_records, matches)
    /\ unmatched_docs = load_unmatched_docs(doc_records, matches)
    /\ unmatched_vouchers = <<>> \/ unmatched_docs = <<>>
    /\ new_a = EmptyDict
    /\ new_b = EmptyDict
    /\ new_c = EmptyDict
    /\ cands_a = EmptyDict
    /\ cands_b = EmptyDict
    /\ cands_c = EmptyDict
    /\ before = [matches |-> matches, unmatched_vouchers |-> unmatched_vouchers,
                 unmatched_docs |-> unmatched_docs]
    /\ pc = "pass_a"
    /\ run = 1
    /\ current_index = 0
    /\ switch_all_docs = FALSE
    /\ switch_hide_matched = TRUE
    /\ table_data = <<>>
    /\ arg = None
    /\ ret = None
    /\ locals = NoLocals

NextEmptyInput ==
    \/ RunPassA
    \/ RunPassB
    \/ RunPassC

SpecEmptyInput == InitEmptyInput /\ [][NextEmptyInput]_vars

-----------------------------------------------------------------------------
(* C22 *)

\* the dict the pass that just ran returned
Returned ==
    CASE pc = "pass_b" -> new_a
      [] pc = "pass_c" -> new_b
      [] pc = "save" -> new_c
      [] OTHER -> EmptyDict

\* the pass that just ran found no unmatched document or no unmatched voucher
EmptyInput == before.unmatched_docs = <<>> \/ before.unmatched_vouchers = <<>>

\* C22: empty input.  A pass that starts with an empty document pool or an
\* empty voucher list returns an empty match map, and its merge leaves the
\* MatchSet and the two pools as they were.
C22_EmptyInput ==
    (pc \in {"pass_b", "pass_c", "save"} /\ EmptyInput) =>
        /\ Returned = EmptyDict
        /\ state = before

\* C22, the part the code keeps: with an empty voucher list every pass
\* returns an empty match map, with an empty document pool Pass B and Pass C
\* do, and nothing changes.
C22_EmptyVouchersOrPassBC ==
    (/\ pc \in {"pass_b", "pass_c", "save"}
     /\ \/ before.unmatched_vouchers = <<>>
        \/ before.unmatched_docs = <<>> /\ pc # "pass_b") =>
        /\ Returned = EmptyDict
        /\ state = before

-----------------------------------------------------------------------------
(* C23 *)

\* the entries the pass that just ran added to the MatchSet
Added == DOMAIN matches \ DOMAIN before.matches

\* C23: shape of committed entries.  Every entry a pass of the cascade added
\* to the MatchSet belongs to a voucher that was in unmatched_vouchers when
\* the pass started and is a list of exactly one file of doc_records, so
\* that no entry of the MatchSet is empty or names a file outside doc_records.
C23_EntryShape ==
    pc \in {"pass_b", "pass_c", "save"} =>
        /\ \A vn \in Added :
               /\ In(vn, before.unmatched_vouchers)
               /\ Len(matches[vn]) = 1
               /\ matches[vn][1] \in AllDocumentIds
        /\ \A vn \in DOMAIN matches :
               matches[vn] # <<>> /\ Range(matches[vn]) \subseteq AllDocumentIds

\* C23 happens: Pass C has added an entry, after Pass A had left a voucher
\* with several candidates without one
C23_Witness ==
    /\ pc = "save"
    /\ Added # {}
    /\ \E vn \in DOMAIN cands_a : Len(cands_a[vn]) >= 2 /\ vn \notin DOMAIN new_a

-----------------------------------------------------------------------------
(* The loops of the program, step by step: the while loop of Pass C that     *)
(* builds expected_dates, and the sequence of passes of startup              *)

\* delta = frequency_deltas.get(freq, timedelta(days=30)); expected_dates = [];
\* current = start_date
EnterLoop ==
    /\ pc = "call"
    /\ pc' = "while"
    /\ locals' = [delta |-> delta_of(arg.frequency),
                  current |-> arg.start_date,
                  expected_dates |-> <<>>]
    /\ UNCHANGED <<arg, ret, program>>

\* one turn of `while current <= (v_date + delta)`
LoopStep ==
    /\ pc = "while"
    /\ locals.current <= arg.v_date + locals.delta
    /\ locals' = [locals EXCEPT
                     !.expected_dates =
                         IF locals.current >= arg.start_date
                         THEN Append(@, locals.current) ELSE @,
                     !.current = @ + locals.delta]
    /\ UNCHANGED <<arg, ret, pc, program>>

\* the test of the while loop fails: expected_dates is complete
LoopExit ==
    /\ pc = "while"
    /\ ~(locals.current <= arg.v_date + locals.delta)
    /\ pc' = "returned_schedule"
    /\ UNCHANGED <<arg, ret, locals, program>>

\* either computation at its start
InitLoops == Init \/ InitDates

NextLoops ==
    \/ Load
    \/ RunPassA
    \/ RunPassB
    \/ RunPassC
    \/ Save
    \/ EnterLoop
    \/ LoopStep
    \/ LoopExit

\* where the one thread of the program stands: the statement and, inside the
\* while loop, the value of `current`
position == <<pc, IF pc = "while" THEN locals.current ELSE 0>>

\* the statements of startup up to the save
Statements == {"startup", "pass_a", "pass_b", "pass_c", "save"}

\* the statement startup stands at is executed: control leaves it for
\* another statement or for the review
Executes ==
    /\ pc \in Statements
    /\ pc' \in (Statements \cup {"review"}) \ {pc}

\* the loop of Pass C takes its next step
Iterates == EnterLoop \/ LoopStep \/ LoopExit

\* the interpreter executes the next statement of the one thread there is
SpecLoops ==
    InitLoops /\ [][NextLoops]_vars /\ WF_position(Iterates) /\ WF_pc(Executes)

-----------------------------------------------------------------------------
(* C24 *)

\* C24: termination.  The loop that builds the expected occurrences of an
\* alias, entered for any start date, voucher date and frequency (one of the
\* four named or another string), comes to its end, and startup, once
\* begun, gets through Pass A, Pass B and Pass C to the review.
C24_Termination ==
    /\ (pc = "call") ~> (pc = "returned_schedule")
    /\ (pc = "startup") ~> (pc = "review")

\* the loop, run step by step, builds what expected_dates computes; while it
\* runs delta is positive and `current` is one delta further for every date
\* appended
C24_LoopComputesSchedule ==
    /\ pc = "returned_schedule" =>
           locals.expected_dates =
               expected_dates(arg.start_date, arg.start_date, arg.v_date,
                              delta_of(arg.frequency))
    /\ pc = "while" =>
           /\ locals.delta > 0
           /\ locals.current =
                  arg.start_date + Len(locals.expected_dates) * locals.delta

\* C24 happens: the loop has ended after several turns for a frequency that
\* is not a key of frequency_deltas
C24_Witness ==
    /\ pc = "returned_schedule"
    /\ arg.frequency \notin DOMAIN frequency_deltas
    /\ Len(locals.expected_dates) >= 3

-----------------------------------------------------------------------------
(* C25 *)

\* C25: manual match keeps the derived state consistent.  In the review
\* window, after any number of manual matches, unmatched_vouchers holds
\* exactly the vouchers without an entry in the MatchSet and unmatched_docs
\* exactly the documents that no entry names.
C25_ManualMatchConsistent ==
    /\ Range(unmatched_vouchers) = AllVoucherIds \ DOMAIN matches
    /\ Range(unmatched_docs) = AllDocumentIds \ matched_docs_of(matches)

\* C25, the part the code keeps: the voucher that was matched by hand has
\* left unmatched_vouchers, and the MatchSet on file is the MatchSet in memory.
C25_VoucherLeavesList ==
    /\ Range(unmatched_vouchers) = AllVoucherIds \ DOMAIN matches
    /\ matchinfo_file = matches

-----------------------------------------------------------------------------
(* C26 *)

\* C26: the review cursor stays in range.  Whenever a voucher is left
\* unmatched, current_index is a position of unmatched_vouchers, so that the
\* voucher shown is an unmatched one; prev_record moves the cursor only from
\* a position after the first and next_record only from one before the last,
\* each by one.
C26_CursorInRange ==
    /\ [](unmatched_vouchers # <<>> =>
              /\ current_index \in 0..(Len(unmatched_vouchers) - 1)
              /\ Shown.VoucherNumber \in AllVoucherIds \ DOMAIN matches)
    /\ [][PrevRecord => (current_index > 0 /\ current_index' = current_index - 1)]_vars
    /\ [][NextRecord => (/\ current_index < Len(unmatched_vouchers) - 1
                         /\ current_index' = current_index + 1)]_vars
    /\ [][(\/ current_index = 0 /\ ~MatchRecord /\ ~NextRecord
           \/ current_index = Len(unmatched_vouchers) - 1 /\ ~MatchRecord /\ ~PrevRecord)
              => UNCHANGED current_index]_vars

\* C26 happens: the voucher at the last position was matched by hand and the
\* cursor has moved back onto the new last position
C26_Witness ==
    /\ pc = "review"
    /\ current_index = Len(unmatched_vouchers) - 1
    /\ \E vn \in DOMAIN matches \ DOMAIN before.matches :
           vn > unmatched_vouchers[current_index + 1]

-----------------------------------------------------------------------------
(* C27 *)

\* the catalog with "monthly" written in place of every frequency that is
\* none of the named ones
AsMonthly(creds) ==
    [c \in DOMAIN creds |->
        [creds[c] EXCEPT !.aliases =
            [k \in DOMAIN creds[c].aliases |->
                LET a == creds[c].aliases[k]
                IN  IF a.frequency # "" /\ a.frequency \notin NamedFrequencies
                    THEN [a EXCEPT !.frequency = "monthly"]
                    ELSE a]]]

\* C27: unknown frequency value.  A subscription alias whose frequency is
\* none of monthly, quarterly, semi-annual and bimonthly is not skipped by
\* Pass C: an unmatched document with the voucher's amount and a vendor line
\* of a subscription alias is a candidate when it is undated or its date
\* closest to the voucher date is within 7 days of start + 30 * k; and Pass C
\* returns what it returns for the catalog in which the alias is monthly.
C27_UnknownFrequency ==
    pc = "returned_c" =>
        /\ new_c = pass_c_subscription(bank_records, doc_records, unmatched_vouchers,
                                       unmatched_docs, AsMonthly(creditors))
        /\ \A i \in DOMAIN bank_records :
               LET v == bank_records[i]
                   vn == v.VoucherNumber
               IN  (/\ In(vn, unmatched_vouchers)
                    /\ v.CreditorID \in DOMAIN creditors
                    /\ v.Date_iso >= 0) =>
                       \A a \in SubscriptionAliases(v.CreditorID) :
                       \A f \in UnmatchedDocs :
                           (/\ a.frequency \notin NamedFrequencies
                            /\ a.start_date >= 0
                            /\ \E x \in Range(DocOf(f).amounts) :
                                   round2(x) = round2(v.Amount)
                            /\ \E line \in Range(DocOf(f).vendors) :
                                   \E b \in SubscriptionAliases(v.CreditorID) :
                                       LineMatches(line, b)
                            /\ \/ DatesOf(DocOf(f)) = {}
                               \/ \E k \in 0..((v.Date_iso + 30) \div 30) :
                                      /\ a.start_date + 30 * k <= v.Date_iso + 30
                                      /\ Abs(closest_date(doc_dates_of(DocOf(f)),
                                                       v.Date_iso)
                                             - (a.start_date + 30 * k)) <= 7)
                               => /\ vn \in DOMAIN cands_c
                                  /\ f \in Range(cands_c[vn])

\* C27 happens: Pass C has committed a dated document that is within 7 days
\* of no occurrence of an alias with a named frequency, only of one of the
\* alias with the unknown frequency
C27_Witness ==
    /\ pc = "returned_c"
    /\ \E i \in DOMAIN bank_records :
           LET v == bank_records[i]
               vn == v.VoucherNumber
           IN  /\ vn \in DOMAIN new_c
               /\ \E a \in SubscriptionAliases(v.CreditorID) :
                      a.frequency \notin NamedFrequencies /\ a.start_date >= 0
               /\ LET f == new_c[vn][1]
                      near == closest_date(doc_dates_of(DocOf(f)), v.Date_iso)
                  IN  /\ DatesOf(DocOf(f)) # {}
                      /\ \A a \in SubscriptionAliases(v.CreditorID) :
                             (a.frequency \in NamedFrequencies /\ a.start_date >= 0) =>
                                 \A e \in Occurrences(a, v.Date_iso) : Abs(near - e) > 7

-----------------------------------------------------------------------------
(* C28 *)

\* the score refresh_table gives the document for the voucher
Score(vn, f) == score_of(voucher_map(bank_records, vn), DocOf(f), creditors)

\* C28: passes and scorer agree.  Every document Pass B accepted as a
\* candidate for a voucher has score at least 30 for that voucher, at least
\* 40 when it has a date that parses; every document Pass C accepted has
\* score at least 80; so no document committed by Pass B or Pass C has a
\* score below 30.
C28_PassesAgreeWithScorer ==
    /\ pc = "returned_b" =>
           /\ \A vn \in DOMAIN cands_b : \A f \in Range(cands_b[vn]) :
                  /\ Score(vn, f) >= 30
                  /\ DatesOf(DocOf(f)) # {} => Score(vn, f) >= 40
           /\ \A vn \in DOMAIN new_b : \A f \in Range(new_b[vn]) : Score(vn, f) >= 30
    /\ pc = "returned_c" =>
           /\ \A vn \in DOMAIN cands_c : \A f \in Range(cands_c[vn]) :
                  Score(vn, f) >= 80
           /\ \A vn \in DOMAIN new_c : \A f \in Range(new_c[vn]) : Score(vn, f) >= 30

\* C28 happens: Pass B has committed a dated document whose score for the
\* voucher is exactly 40, the alias and a date 8 to 15 days away
C28_Witness ==
    /\ pc = "returned_b"
    /\ \E vn \in DOMAIN new_b :
           /\ DatesOf(DocOf(new_b[vn][1])) # {}
           /\ Score(vn, new_b[vn][1]) = 40

-----------------------------------------------------------------------------
(* C29 *)

\* C29: scorer filters.  While a voucher is shown: with switch_hide_matched
\* on, no row of the table is a document named by an entry of the MatchSet;
\* with switch_all_docs off, no row has score 0; with switch_hide_matched off
\* and switch_all_docs on, every document of the collection has exactly one
\* row.
C29_ScorerFilters ==
    pc = "review" =>
        /\ switch_hide_matched =>
               \A r \in DOMAIN table_data : \A vn \in DOMAIN matches :
                   table_data[r].file \notin Range(matches[vn])
        /\ ~switch_all_docs =>
               \A r \in DOMAIN table_data :
                   /\ int(table_data[r].score) # 0
                   /\ Score(Shown.VoucherNumber, table_data[r].file) # 0
        /\ (~switch_hide_matched /\ switch_all_docs) =>
               \A f \in AllDocumentIds :
                   Cardinality({r \in DOMAIN table_data : table_data[r].file = f}) = 1

\* C29 happens: after a match made by hand both filters are on and each keeps
\* a document out of the table, one that is in the MatchSet and scores above
\* 0 for the voucher shown, and one that is not in the MatchSet and scores 0
C29_Witness ==
    /\ pc = "review"
    /\ switch_hide_matched
    /\ ~switch_all_docs
    /\ DOMAIN matches # DOMAIN before.matches
    /\ \E f \in matched_docs_of(matches) : Score(Shown.VoucherNumber, f) > 0
    /\ \E f \in AllDocumentIds \ matched_docs_of(matches) : Score(Shown.VoucherNumber, f) = 0

-----------------------------------------------------------------------------
(* processor.main: the entries of bank.csv, mp.csv and kontant.csv become    *)
(* rows with a voucher number.  arg holds the three loaded lists, creditors  *)
(* the loaded catalog, locals the local variables of main.                    *)

\* entries per input file
MaxEntries == 2

\* 'CreditorID': '' of a row without a creditor
NoCreditor == 0

\* the catalogs of creditors.json as load_creditors builds them (the accounts
\* and the override of an alias do not reach the voucher number): creditor 1
\* with one voucher for all its rows, creditor 2 with one per row, creditor 3
\* the MobilePay creditor with either setting; names in lower case
ProcessorCatalogs ==
    { [c \in {1, 2, 3} |->
          CASE c = 1 -> [id |-> 1, name |-> "rent", single_voucher |-> TRUE,
                         aliases |-> <<[prefix |-> <<"R">>, postfix |-> <<>>]>>]
            [] c = 2 -> [id |-> 2, name |-> "supplier", single_voucher |-> FALSE,
                         aliases |-> <<[prefix |-> S, postfix |-> X]>>]
            [] c = 3 -> [id |-> 3, name |-> "mobilepay", single_voucher |-> sv,
                         aliases |-> <<>>]] :
      sv \in BOOLEAN }

\* BankEntry (amount, text): a MobilePay deposit (the one character
\* "0200448585" stands for the ten of that prefix), a payment to creditor 1,
\* to creditor 2, to nobody the catalog knows, and money coming in
BankEntries ==
    { [amount |-> 900, text |-> <<"0200448585", "Q">>],
      [amount |-> -100, text |-> <<"R", "Q">>],
      [amount |-> -100, text |-> SX],
      [amount |-> -100, text |-> <<"Q">>],
      [amount |-> 100, text |-> <<"Q">>] }

\* MpEntry (amount, type, message): a fee with a message of creditor 1, of
\* creditor 2, of no creditor, and a payment
MpEntries ==
    { [amount |-> 5, type |-> "fee", message |-> <<"R", "Q">>],
      [amount |-> 5, type |-> "fee", message |-> SX],
      [amount |-> 5, type |-> "fee", message |-> <<"Q">>],
      [amount |-> 50, type |-> "payment", message |-> <<"Q">>] }

\* CashEntry (amount): money paid out and money taken in
CashEntries == { [amount |-> -10], [amount |-> 10] }

\* mobilepay_cr = next(cr for cr in creditors.values() if cr.name.lower() == 'mobilepay')
mobilepay_cr(creds) ==
    creds[CHOOSE c \in DOMAIN creds :
              /\ creds[c].name = "mobilepay"
              /\ \A b \in DOMAIN creds : creds[b].name = "mobilepay" => c <= b]

\* the creditor of the first alias, in the order of creditors.values(), that
\* the text starts and ends with; None when the loops end without a match
first_match(text, creds) ==
    LET hits == {c \in DOMAIN creds :
                    \E k \in DOMAIN creds[c].aliases :
                        /\ startswith(text, creds[c].aliases[k].prefix)
                        /\ endswith(text, creds[c].aliases[k].postfix)}
    IN  IF hits = {} THEN None
        ELSE CHOOSE c \in hits : \A b \in hits : c <= b

\* v = voucher_counter; voucher_counter += 1
fresh_voucher(st) ==
    [v |-> st.voucher_counter,
     voucher_counter |-> st.voucher_counter + 1,
     voucher_map |-> st.voucher_map]

\* the voucher logic that does not count the number it hands to a creditor
\* with single_voucher
voucher_of_counter_kept(st, cr) ==
    IF cr.single_voucher
    THEN LET m == IF cr.id \notin DOMAIN st.voucher_map
                  THEN [c \in DOMAIN st.voucher_map \cup {cr.id} |->
                           IF c = cr.id THEN st.voucher_counter ELSE st.voucher_map[c]]
                  ELSE st.voucher_map
         IN  [v |-> m[cr.id], voucher_counter |-> st.voucher_counter, voucher_map |-> m]
    ELSE fresh_voucher(st)

\* the voucher logic of a row of creditor cr: st holds voucher_counter and
\* voucher_map, the result their new values and v
voucher_of(st, cr) ==
    IF cr.single_voucher
    THEN IF cr.id \notin DOMAIN st.voucher_map
         THEN [v |-> st.voucher_counter,
               voucher_counter |-> st.voucher_counter + 1,
               voucher_map |-> [c \in DOMAIN st.voucher_map \cup {cr.id} |->
                                   IF c = cr.id THEN st.voucher_counter
                                   ELSE st.voucher_map[c]]]
         ELSE [v |-> st.voucher_map[cr.id],
               voucher_counter |-> st.voucher_counter,
               voucher_map |-> st.voucher_map]
    ELSE fresh_voucher(st)

\* main after target.append({'VoucherNumber': v, 'CreditorID': cr_id, ...}):
\* rows holds the rows of the six lists in the order they were appended
appended(st, k, target, cr_id, n) ==
    [k |-> k + 1,
     voucher_counter |-> n.voucher_counter,
     voucher_map |-> n.voucher_map,
     rows |-> Append(st.rows, [VoucherNumber |-> n.v, CreditorID |-> cr_id,
                               list |-> target])]

InitProcessor ==
    /\ creditors \in ProcessorCatalogs
    /\ arg \in [bank : [1..MaxEntries -> BankEntries],
                mp : [1..MaxEntries -> MpEntries],
                cash : [1..1 -> CashEntries]]
    /\ locals = [k |-> 1, voucher_counter |-> 1, voucher_map |-> EmptyDict,
                 rows |-> <<>>]
    /\ ret = None
    /\ pc = "bank"
    /\ bank_records = <<>>
    /\ doc_records = <<>>
    /\ matchinfo_file = EmptyDict
    /\ matches = EmptyDict
    /\ unmatched_vouchers = <<>>
    /\ unmatched_docs = <<>>
    /\ new_a = EmptyDict
    /\ new_b = EmptyDict
    /\ new_c = EmptyDict
    /\ cands_a = EmptyDict
    /\ cands_b = EmptyDict
    /\ cands_c = EmptyDict
    /\ before = [matches |-> EmptyDict, unmatched_vouchers |-> <<>>,
                 unmatched_docs |-> <<>>]
    /\ run = 1
    /\ current_index = 0
    /\ switch_all_docs = FALSE
    /\ switch_hide_matched = TRUE
    /\ table_data = <<>>

\* one turn of `for e in bank`
ProcessBank ==
    /\ pc = "bank"
    /\ locals.k <= Len(arg.bank)
    /\ LET e == arg.bank[locals.k]
           cr_id == first_match(e.text, creditors)
       IN  locals' =
               IF startswith(e.text, <<"0200448585">>)
               THEN [locals EXCEPT !.k = @ + 1]
               ELSE IF e.amount < 0
               THEN IF cr_id # None
                    THEN appended(locals, locals.k, "bank_kred", cr_id,
                                  voucher_of(locals, creditors[cr_id]))
                    ELSE appended(locals, locals.k, "bank_kred", NoCreditor,
                                  fresh_voucher(locals))
               ELSE appended(locals, locals.k, "bank_deb", NoCreditor,
                             fresh_voucher(locals))
    /\ UNCHANGED <<pc, ret, arg, program>>

\* `for e in bank` is over; `for e in mp` begins
EndBank ==
    /\ pc = "bank"
    /\ locals.k > Len(arg.bank)
    /\ locals' = [locals EXCEPT !.k = 1]
    /\ pc' = "mp"
    /\ UNCHANGED <<ret, arg, program>>

\* one turn of `for e in mp`
ProcessMp ==
    /\ pc = "mp"
    /\ locals.k <= Len(arg.mp)
    /\ LET e == arg.mp[locals.k]
           amt == IF e.type = "fee" THEN -e.amount ELSE e.amount
           hit == first_match(e.message, creditors)
           cr_id == IF hit # None THEN hit ELSE mobilepay_cr(creditors).id
       IN  locals' =
               IF amt < 0
               THEN appended(locals, locals.k, "mp_kred", cr_id,
                             voucher_of(locals, creditors[cr_id]))
               ELSE appended(locals, locals.k, "mp_deb", NoCreditor,
                             fresh_voucher(locals))
    /\ UNCHANGED <<pc, ret, arg, program>>

\* `for e in mp` is over; `for e in cash` begins
EndMp ==
    /\ pc = "mp"
    /\ locals.k > Len(arg.mp)
    /\ locals' = [locals EXCEPT !.k = 1]
    /\ pc' = "cash"
    /\ UNCHANGED <<ret, arg, program>>

\* one turn of `for e in cash`
ProcessCash ==
    /\ pc = "cash"
    /\ locals.k <= Len(arg.cash)
    /\ LET e == arg.cash[locals.k]
       IN  locals' = appended(locals, locals.k,
                              IF e.amount < 0 THEN "cash_kred" ELSE "cash_deb",
                              NoCreditor, fresh_voucher(locals))
    /\ UNCHANGED <<pc, ret, arg, program>>

\* `for e in cash` is over; write_csv of each of the six lists
WriteCsv ==
    /\ pc = "cash"
    /\ locals.k > Len(arg.cash)
    /\ ret' = [f \in {"bank_kred", "bank_deb", "mp_kred", "mp_deb",
                      "cash_kred", "cash_deb"} |->
                  SelectSeq(locals.rows, LAMBDA r : r.list = f)]
    /\ pc' = "written"
    /\ UNCHANGED <<locals, arg, program>>

NextProcessor ==
    \/ ProcessBank
    \/ EndBank
    \/ ProcessMp
    \/ EndMp
    \/ ProcessCash
    \/ WriteCsv

SpecProcessor == InitProcessor /\ [][NextProcessor]_vars

-----------------------------------------------------------------------------
(* C30 *)

\* the row belongs to a creditor with single_voucher = true
SingleVoucherRow(r) ==
    /\ r.CreditorID \in DOMAIN creditors
    /\ creditors[r.CreditorID].single_voucher

\* C30: voucher numbering in processor.main.  The numbers of the rows are
\* 1, 2, ... up to the counter, without a gap; a row of a single-voucher
\* creditor that is not the creditor's first carries the number of the
\* creditor's first row, and every other row carries the number one above
\* those handed out before it, used by no earlier row; so two rows share a
\* number exactly when they are rows of one single-voucher creditor.
C30_VoucherNumbering ==
    pc \in {"bank", "mp", "cash", "written"} =>
        /\ {locals.rows[i].VoucherNumber : i \in DOMAIN locals.rows} = 1..(locals.voucher_counter - 1)
        /\ \A i \in DOMAIN locals.rows :
               LET r == locals.rows[i]
                   before_i == {locals.rows[j].VoucherNumber : j \in 1..(i - 1)}
                   earlier == {j \in 1..(i - 1) :
                                  locals.rows[j].CreditorID = r.CreditorID}
               IN  IF SingleVoucherRow(r) /\ earlier # {}
                   THEN r.VoucherNumber =
                            locals.rows[CHOOSE j \in earlier : \A h \in earlier : j <= h].VoucherNumber
                   ELSE /\ r.VoucherNumber = Cardinality(before_i) + 1
                        /\ r.VoucherNumber \notin before_i
        /\ \A i \in DOMAIN locals.rows : \A j \in DOMAIN locals.rows :
               i # j =>
                   (locals.rows[i].VoucherNumber = locals.rows[j].VoucherNumber
                        <=> /\ SingleVoucherRow(locals.rows[i])
                            /\ locals.rows[i].CreditorID = locals.rows[j].CreditorID)

\* C30 happens: the files are written; a single-voucher creditor has a row
\* from bank.csv and a row from mp.csv with one number and a row with a
\* higher number between them, and the row of the cash entry has the last
\* number
C30_Witness ==
    /\ pc = "written"
    /\ \E i \in DOMAIN locals.rows : \E j \in DOMAIN locals.rows : \E h \in DOMAIN locals.rows :
           /\ i < h /\ h < j
           /\ locals.rows[i].list = "bank_kred" /\ locals.rows[j].list = "mp_kred"
           /\ locals.rows[i].VoucherNumber = locals.rows[j].VoucherNumber
           /\ locals.rows[h].VoucherNumber > locals.rows[i].VoucherNumber
    /\ locals.rows[Len(locals.rows)].list \in {"cash_kred", "cash_deb"}
    /\ locals.rows[Len(locals.rows)].VoucherNumber = locals.voucher_counter - 1

====
